---- MODULE Spec2Model ----
(***************************************************************************)
(* Link-rewrite and media-reupload pipeline of the Cheshire Discord bot    *)
(* (bot.py).  Text is modelled at character level: a Python str is a       *)
(* sequence of one-character strings, so that split, lower, replace, the   *)
(* substring test and URL_REGEX are computed the way the code computes     *)
(* them.  An Optional value is a sequence of length 0 (None) or 1.         *)
(***************************************************************************)
EXTENDS Naturals, Sequences, FiniteSets

\* ------------------------------------------------------------------------
\* Python str primitives
\* ------------------------------------------------------------------------

UpperLetters == <<"A","B","C","D","E","F","G","H","I","J","K","L","M","N","O","P","Q","R","S","T","U","V","W","X","Y","Z">>

LowerLetters == <<"a","b","c","d","e","f","g","h","i","j","k","l","m","n","o","p","q","r","s","t","u","v","w","x","y","z">>

\* str.lower() on one character
LowerChar(c) ==
    IF \E i \in 1..Len(UpperLetters) : UpperLetters[i] = c
    THEN LowerLetters[CHOOSE i \in 1..Len(UpperLetters) : UpperLetters[i] = c]
    ELSE c

\* str.lower()
Lower(s) == [i \in 1..Len(s) |-> LowerChar(s[i])]

\* s[i-1 : i-1+len(p)] == p   (positions are 1-based)
HasAt(s, p, i) ==
    /\ i >= 1
    /\ i + Len(p) - 1 <= Len(s)
    /\ \A k \in 1..Len(p) : s[i + k - 1] = p[k]

\* s.find(p) + 1 : position of the leftmost occurrence of p in s, 0 if none
Find(s, p) ==
    LET hits == {i \in 1..(Len(s) + 1) : HasAt(s, p, i)}
    IN  IF hits = {} THEN 0 ELSE CHOOSE i \in hits : \A j \in hits : i <= j

\* p in s
Contains(s, p) == Find(s, p) # 0

\* s.replace(old, new, 1)
Replace1(s, old, new) ==
    LET i == Find(s, old)
    IN  IF i = 0 THEN s
        ELSE SubSeq(s, 1, i - 1) \o new \o SubSeq(s, i + Len(old), Len(s))

None == << >>

Some(v) == << v >>

\* Python truthiness of an Optional[str]: None and "" are falsy
Truthy(opt) == opt # None /\ opt[1] # << >>

\* ------------------------------------------------------------------------
\* Domain tables
\* ------------------------------------------------------------------------

S_scheme_sep == <<":", "/", "/">>

S_slash == <<"/">>

S_http == <<"h", "t", "t", "p">>

S_https == <<"h", "t", "t", "p", "s">>

\* Twitter / X (bot.py 104-105)
TWITTER_DOMAINS ==
    { <<"t", "w", "i", "t", "t", "e", "r", ".", "c", "o", "m">>,
      <<"w", "w", "w", ".", "t", "w", "i", "t", "t", "e", "r", ".", "c", "o", "m">>,
      <<"m", "o", "b", "i", "l", "e", ".", "t", "w", "i", "t", "t", "e", "r", ".", "c", "o", "m">> }

X_DOMAINS ==
    { <<"x", ".", "c", "o", "m">>,
      <<"w", "w", "w", ".", "x", ".", "c", "o", "m">>,
      <<"m", "o", "b", "i", "l", "e", ".", "x", ".", "c", "o", "m">> }

\* Reddit (bot.py 108-114)
REDDIT_DOMAINS ==
    { <<"r", "e", "d", "d", "i", "t", ".", "c", "o", "m">>,
      <<"w", "w", "w", ".", "r", "e", "d", "d", "i", "t", ".", "c", "o", "m">>,
      <<"o", "l", "d", ".", "r", "e", "d", "d", "i", "t", ".", "c", "o", "m">>,
      <<"n", "e", "w", ".", "r", "e", "d", "d", "i", "t", ".", "c", "o", "m">>,
      <<"r", "e", "d", "d", ".", "i", "t">> }

\* Instagram, Facebook (bot.py 117, 120)
INSTAGRAM_DOMAINS ==
    { <<"i", "n", "s", "t", "a", "g", "r", "a", "m", ".", "c", "o", "m">>,
      <<"w", "w", "w", ".", "i", "n", "s", "t", "a", "g", "r", "a", "m", ".", "c", "o", "m">>,
      <<"m", ".", "i", "n", "s", "t", "a", "g", "r", "a", "m", ".", "c", "o", "m">> }

FACEBOOK_DOMAINS ==
    { <<"f", "a", "c", "e", "b", "o", "o", "k", ".", "c", "o", "m">>,
      <<"w", "w", "w", ".", "f", "a", "c", "e", "b", "o", "o", "k", ".", "c", "o", "m">>,
      <<"m", ".", "f", "a", "c", "e", "b", "o", "o", "k", ".", "c", "o", "m">> }

\* Domains the rewriter will not touch (bot.py 123-134)
SKIP_DOMAINS ==
    { <<"f", "x", "t", "w", "i", "t", "t", "e", "r", ".", "c", "o", "m">>,
      <<"v", "x", "t", "w", "i", "t", "t", "e", "r", ".", "c", "o", "m">>,
      <<"f", "i", "x", "u", "p", "x", ".", "c", "o", "m">>,
      <<"f", "i", "x", "v", "x", ".", "c", "o", "m">>,
      <<"r", "x", "d", "d", "i", "t", ".", "c", "o", "m">>,
      <<"v", "x", "r", "e", "d", "d", "i", "t", ".", "c", "o", "m">>,
      <<"r", "x", "y", "d", "d", "i", "t", ".", "c", "o", "m">>,
      <<"r", "e", "d", "d", "i", "t", "e", "z", ".", "c", "o", "m">> }

\* Replacement hosts (bot.py 177, 181, 185)
FXTWITTER == <<"f", "x", "t", "w", "i", "t", "t", "e", "r", ".", "c", "o", "m">>

FIXUPX == <<"f", "i", "x", "u", "p", "x", ".", "c", "o", "m">>

RXDDIT == <<"r", "x", "d", "d", "i", "t", ".", "c", "o", "m">>

\* ------------------------------------------------------------------------
\* URL_REGEX = (?<!<)(https?://[^\s>]+)
\* ------------------------------------------------------------------------

\* the characters \s matches that the inputs use
Whitespace == {" ", "\n", "\t"}

\* [^\s>]
UrlChar(c) == c \notin Whitespace /\ c # ">"

\* last position of the maximal run of [^\s>] characters that starts at i
RECURSIVE RunEnd(_, _)
RunEnd(s, i) ==
    IF i + 1 <= Len(s) /\ UrlChar(s[i + 1]) THEN RunEnd(s, i + 1) ELSE i

\* variant: the pattern without its lookbehind
Lookbehind_absent(s, i) == TRUE

\* (?<!<) at position i : the character before i is not "<"
Lookbehind(s, i) == i = 1 \/ s[i - 1] # "<"

\* A match of URL_REGEX starting exactly at position i: the position of its
\* last character, or 0 when the pattern does not match there.  "s?" is
\* greedy; giving the "s" back never helps, since "://" must follow.
URL_REGEX(s, i) ==
    LET k == IF HasAt(s, S_https, i) THEN i + Len(S_https) ELSE i + Len(S_http)
        b == k + Len(S_scheme_sep)
    IN  IF /\ Lookbehind(s, i)
           /\ HasAt(s, S_http, i)
           /\ HasAt(s, S_scheme_sep, k)
           /\ b <= Len(s)
           /\ UrlChar(s[b])
        THEN RunEnd(s, b)
        ELSE 0

\* URL_REGEX.finditer(s), scanning from position pos: the non-overlapping
\* matches from left to right, each as [start, end] (inclusive positions)
RECURSIVE finditer(_, _)
finditer(s, pos) ==
    IF pos > Len(s) THEN << >>
    ELSE LET e == URL_REGEX(s, pos)
         IN  IF e # 0
             THEN << [start |-> pos, end |-> e] >> \o finditer(s, e + 1)
             ELSE finditer(s, pos + 1)

\* m.group(1)
group1(s, m) == SubSeq(s, m.start, m.end)

\* urls = [m.group(1) for m in URL_REGEX.finditer(content)]
scan_urls(content) ==
    LET ms == finditer(content, 1)
    IN  [i \in 1..Len(ms) |-> group1(content, ms[i])]

\* ------------------------------------------------------------------------
\* Host extraction, classification and domain swap
\* ------------------------------------------------------------------------

\* _extract_host: url.split("://", 1)[1].split("/", 1)[0].lower(); an
\* IndexError (no "://") is caught and gives None
_extract_host(url) ==
    LET i == Find(url, S_scheme_sep)
    IN  IF i = 0 THEN None
        ELSE LET after_scheme == SubSeq(url, i + Len(S_scheme_sep), Len(url))
                 j == Find(after_scheme, S_slash)
                 host == IF j = 0 THEN after_scheme ELSE SubSeq(after_scheme, 1, j - 1)
             IN  Some(Lower(host))

_is_instagram(url) ==
    LET host == _extract_host(url)
    IN  IF Truthy(host) THEN host[1] \in INSTAGRAM_DOMAINS ELSE FALSE

_is_facebook(url) ==
    LET host == _extract_host(url)
    IN  IF Truthy(host) THEN host[1] \in FACEBOOK_DOMAINS ELSE FALSE

\* variant: the skip-list is looked up in the host only
is_skipped_host_only(url) ==
    LET host == _extract_host(url)
    IN  Truthy(host) /\ \E d \in SKIP_DOMAINS : Contains(host[1], d)

\* any(d in lowered for d in SKIP_DOMAINS)
is_skipped(url) == \E d \in SKIP_DOMAINS : Contains(Lower(url), d)

\* variant: no skip-list check
_swap_domain_no_skip(url) ==
    LET host == _extract_host(url)
    IN  IF ~Truthy(host) THEN url
        ELSE IF host[1] \in TWITTER_DOMAINS THEN Replace1(url, host[1], FXTWITTER)
        ELSE IF host[1] \in X_DOMAINS THEN Replace1(url, host[1], FIXUPX)
        ELSE IF host[1] \in REDDIT_DOMAINS THEN Replace1(url, host[1], RXDDIT)
        ELSE url

_swap_domain(url) ==
    IF is_skipped(url) THEN url
    ELSE LET host == _extract_host(url)
         IN  IF ~Truthy(host) THEN url
             ELSE IF host[1] \in TWITTER_DOMAINS THEN Replace1(url, host[1], FXTWITTER)
             ELSE IF host[1] \in X_DOMAINS THEN Replace1(url, host[1], FIXUPX)
             ELSE IF host[1] \in REDDIT_DOMAINS THEN Replace1(url, host[1], RXDDIT)
             ELSE url

\* repl(match) of _fix_message_content_for_links
repl(url) ==
    IF _is_instagram(url) \/ _is_facebook(url) THEN url ELSE _swap_domain(url)

\* URL_REGEX.sub(repl, s) from position pos, given the matches still ahead
RECURSIVE sub(_, _, _)
sub(s, ms, pos) ==
    IF ms = << >> THEN SubSeq(s, pos, Len(s))
    ELSE SubSeq(s, pos, ms[1].start - 1)
         \o repl(group1(s, ms[1]))
         \o sub(s, Tail(ms), ms[1].end + 1)

\* variant: changed is set for every match, rewritten or not
_fix_message_content_for_links_any_match(content) ==
    LET ms == finditer(content, 1)
    IN  [ new_content |-> sub(content, ms, 1), changed |-> ms # << >> ]

\* _fix_message_content_for_links: (new_content, changed)
_fix_message_content_for_links(content) ==
    LET ms == finditer(content, 1)
    IN  [ new_content |-> sub(content, ms, 1),
          changed |-> \E i \in 1..Len(ms) :
                          /\ ~(_is_instagram(group1(content, ms[i])) \/ _is_facebook(group1(content, ms[i])))
                          /\ _swap_domain(group1(content, ms[i])) # group1(content, ms[i]) ]

\* ------------------------------------------------------------------------
\* State
\* ------------------------------------------------------------------------

VARIABLES
    linkfix_ids,   \* LINKFIX_CHANNEL_IDS
    hooks,         \* text channel -> the webhooks of the channel, in listing order
    inbox,         \* message events for the bot's own reposts, not yet dispatched
    task,          \* slot -> frame of the on_message coroutine running there
    content,       \* the text under the scanner and the rewriter
    urls,          \* [m.group(1) for m in URL_REGEX.finditer(content)]
    swapped,       \* _swap_domain of each candidate
    reswapped,     \* _swap_domain of each swapped candidate
    fixed,         \* _fix_message_content_for_links(content)
    refixed,       \* _fix_message_content_for_links of the fixed text
    lstage,        \* which of the link results have been computed
    clean,         \* AutoClean: the message a handler of the cog is dealing with
    automod,       \* Moderation: BurstTracker.history and what on_message did last
    gate,          \* Gatekeep: a member's roles and the GateView handlers running
    picker         \* RolePicker: a member's roles and the GenderSelect callback

pipeVars == <<linkfix_ids, hooks, inbox, task>>

linkVars == <<content, urls, swapped, reswapped, fixed, refixed, lstage>>

cogVars == <<clean, automod, gate, picker>>

vars == <<linkfix_ids, hooks, inbox, task, content, urls, swapped, reswapped, fixed, refixed, lstage,
          clean, automod, gate, picker>>

\* ------------------------------------------------------------------------
\* Channels, messages, permissions
\* ------------------------------------------------------------------------

\* The guild's channels as the handler sees them: the class of the channel
\* object and, for a thread, its parent.  "dm" stands for a channel with
\* message.guild None.
ChannelTable ==
    [ shitposting |-> [kind |-> "TextChannel", parent_id |-> "none"],
      general     |-> [kind |-> "TextChannel", parent_id |-> "none"],
      shit_thread |-> [kind |-> "Thread", parent_id |-> "shitposting"],
      gen_thread  |-> [kind |-> "Thread", parent_id |-> "general"],
      music_media |-> [kind |-> "ForumChannel", parent_id |-> "none"],
      forum_post  |-> [kind |-> "Thread", parent_id |-> "music_media"],
      ffxiv_wiki  |-> [kind |-> "TextChannel", parent_id |-> "none"],
      voice       |-> [kind |-> "VoiceChannel", parent_id |-> "none"],
      dm          |-> [kind |-> "DMChannel", parent_id |-> "none"] ]

\* channels a message can arrive in
MessageChannels ==
    {"shitposting", "general", "shit_thread", "gen_thread", "forum_post", "voice", "dm"}

TextChannels == {c \in DOMAIN ChannelTable : ChannelTable[c].kind = "TextChannel"}

\* config.LINKFIX_CHANNEL_IDS, as loaded at start-up
CONFIG_LINKFIX_CHANNEL_IDS == {"shitposting", "music_media"}

\* message texts users post

\* 'hi all'
T_plain ==
    <<"h", "i", " ", "a", "l", "l">>

\* 'check this https://twitter.com/user/status/123'
T_twitter ==
    <<"c", "h", "e", "c", "k", " ", "t", "h", "i", "s", " ", "h", "t", "t", "p", "s", ":", "/", "/", "t", "w", "i", "t", "t", "e", "r", ".", "c", "o", "m", "/", "u", "s", "e", "r", "/", "s", "t", "a", "t", "u", "s", "/", "1", "2", "3">>

\* 'see https://fxtwitter.com/user/status/123'
T_fixed ==
    <<"s", "e", "e", " ", "h", "t", "t", "p", "s", ":", "/", "/", "f", "x", "t", "w", "i", "t", "t", "e", "r", ".", "c", "o", "m", "/", "u", "s", "e", "r", "/", "s", "t", "a", "t", "u", "s", "/", "1", "2", "3">>

\* '<https://x.com/u/2>'
T_wrapped ==
    <<"<", "h", "t", "t", "p", "s", ":", "/", "/", "x", ".", "c", "o", "m", "/", "u", "/", "2", ">">>

\* 'https://www.instagram.com/p/Cx1/'
T_insta ==
    <<"h", "t", "t", "p", "s", ":", "/", "/", "w", "w", "w", ".", "i", "n", "s", "t", "a", "g", "r", "a", "m", ".", "c", "o", "m", "/", "p", "/", "C", "x", "1", "/">>

\* 'https://twitter.com/u/1 https://instagram.com/p/Cx1/'
T_insta_twitter ==
    <<"h", "t", "t", "p", "s", ":", "/", "/", "t", "w", "i", "t", "t", "e", "r", ".", "c", "o", "m", "/", "u", "/", "1", " ", "h", "t", "t", "p", "s", ":", "/", "/", "i", "n", "s", "t", "a", "g", "r", "a", "m", ".", "c", "o", "m", "/", "p", "/", "C", "x", "1", "/">>

\* 'https://m.instagram.com/p/Cx1/ https://www.facebook.com/v/2'
T_insta_facebook ==
    <<"h", "t", "t", "p", "s", ":", "/", "/", "m", ".", "i", "n", "s", "t", "a", "g", "r", "a", "m", ".", "c", "o", "m", "/", "p", "/", "C", "x", "1", "/", " ", "h", "t", "t", "p", "s", ":", "/", "/", "w", "w", "w", ".", "f", "a", "c", "e", "b", "o", "o", "k", ".", "c", "o", "m", "/", "v", "/", "2">>

\* '<@42>'
AuthorMention ==
    <<"<", "@", "4", "2", ">">>

\* ' shared: '
S_shared ==
    <<" ", "s", "h", "a", "r", "e", "d", ":", " ">>

MsgTexts ==
    {T_plain, T_twitter, T_fixed, T_wrapped, T_insta, T_insta_twitter, T_insta_facebook}

\* a message event: where it was posted, who wrote it, what it says
UserMessages ==
    [ channel : MessageChannels, author_bot : BOOLEAN, webhook_id : BOOLEAN,
      content : MsgTexts, src : {"user"} ]

NoMsg ==
    [channel |-> "none", author_bot |-> FALSE, webhook_id |-> FALSE, content |-> << >>, src |-> "none"]

\* channel.permissions_for(me); None when guild.me is missing
PermSnapshots ==
    {None} \cup {Some(p) : p \in [manage_messages : BOOLEAN, manage_webhooks : BOOLEAN]}

\* webhooks a channel may hold before the bot ever posts there
HookOwners == {"self", "other_bot", "human", "no_user"}

\* variant: no listed webhook is taken for reuse
hook_is_bot_owned_never(wh) == FALSE

\* wh.user and wh.user.bot
hook_is_bot_owned(wh) == wh.owner \in {"self", "other_bot"}

\* handler slots: on_message coroutines that may be alive at the same time
Slots == {1, 2}

\* text channels the pipeline can manage webhooks in
HookChannels == TextChannels \cap CONFIG_LINKFIX_CHANNEL_IDS

\* webhooks made by others that a channel holds at start-up, at most
MaxForeignHooks == 1

RECURSIVE HookLists(_)
HookLists(n) ==
    IF n = 0 THEN {<< >>}
    ELSE LET shorter == HookLists(n - 1)
         IN  shorter \cup {Append(hs, [owner |-> o]) : hs \in shorter, o \in HookOwners \ {"self"}}

IdleFrame ==
    [ pc |-> "idle", msg |-> NoMsg, perms |-> None, reason |-> "none",
      urls |-> << >>, idx |-> 0, stage |-> "none",
      any_success |-> FALSE, did_media |-> FALSE, did_text |-> FALSE,
      fixed_content |-> << >>, changed |-> FALSE,
      webhook |-> None, tmpdir |-> "none", leaked |-> 0,
      hist |-> << >>, sent |-> << >>, deleted |-> FALSE ]

\* variant: a thread is looked up under its own id
_effective_linkfix_id_own_id(channel) ==
    IF ChannelTable[channel].kind \in {"TextChannel", "Thread"} THEN Some(channel) ELSE None

\* _effective_linkfix_id
_effective_linkfix_id(channel) ==
    IF ChannelTable[channel].kind = "TextChannel" THEN Some(channel)
    ELSE IF ChannelTable[channel].kind = "Thread" THEN Some(ChannelTable[channel].parent_id)
    ELSE None

\* parent = channel if isinstance(channel, TextChannel) else channel.parent
parent_of(channel) ==
    IF ChannelTable[channel].kind = "TextChannel" THEN channel
    ELSE ChannelTable[channel].parent_id

\* variant: the manage_messages check is missing
early_return_no_perm_check(msg, perms) ==
    LET kind == ChannelTable[msg.channel].kind
        effective_id == _effective_linkfix_id(msg.channel)
    IN  IF kind = "DMChannel" THEN "dm"
        ELSE IF kind \notin {"TextChannel", "Thread"} THEN "not_text_or_thread"
        ELSE IF effective_id = None THEN "no_effective_id"
        ELSE IF effective_id[1] \notin linkfix_ids THEN "not_linkfix"
        ELSE IF msg.author_bot \/ msg.webhook_id THEN "bot_or_webhook"
        ELSE IF perms = None THEN "no_me"
        ELSE IF ChannelTable[parent_of(msg.channel)].kind # "TextChannel" THEN "parent_not_text"
        ELSE "none"

\* variant: messages of bots and webhooks are not ignored
early_return_no_bot_check(msg, perms) ==
    LET kind == ChannelTable[msg.channel].kind
        effective_id == _effective_linkfix_id(msg.channel)
    IN  IF kind = "DMChannel" THEN "dm"
        ELSE IF kind \notin {"TextChannel", "Thread"} THEN "not_text_or_thread"
        ELSE IF effective_id = None THEN "no_effective_id"
        ELSE IF effective_id[1] \notin linkfix_ids THEN "not_linkfix"
        ELSE IF perms = None THEN "no_me"
        ELSE IF ~perms[1].manage_messages THEN "no_manage_messages"
        ELSE IF ChannelTable[parent_of(msg.channel)].kind # "TextChannel" THEN "parent_not_text"
        ELSE "none"

\* The early returns of on_message in source order; "none" when the handler
\* goes on to the pipeline.
early_return(msg, perms) ==
    LET kind == ChannelTable[msg.channel].kind
        effective_id == _effective_linkfix_id(msg.channel)
    IN  IF kind = "DMChannel" THEN "dm"
        ELSE IF kind \notin {"TextChannel", "Thread"} THEN "not_text_or_thread"
        ELSE IF effective_id = None THEN "no_effective_id"
        ELSE IF effective_id[1] \notin linkfix_ids THEN "not_linkfix"
        ELSE IF msg.author_bot \/ msg.webhook_id THEN "bot_or_webhook"
        ELSE IF perms = None THEN "no_me"
        ELSE IF ~perms[1].manage_messages THEN "no_manage_messages"
        ELSE IF ChannelTable[parent_of(msg.channel)].kind # "TextChannel" THEN "parent_not_text"
        ELSE "none"

\* insta_fb_urls = [u for u in urls if _is_instagram(u) or _is_facebook(u)]
insta_fb_urls(text) ==
    SelectSeq(scan_urls(text), LAMBDA u : _is_instagram(u) \/ _is_facebook(u))

\* variant: the original is deleted whatever the reposts returned
should_delete_always(did_media, did_text) == TRUE

\* variant: the original is deleted only if both reposts were delivered
should_delete_both(did_media, did_text) == did_media /\ did_text

\* if did_media or did_text: delete the original
should_delete(did_media, did_text) == did_media \/ did_text

Log(f, op, res) == [f EXCEPT !.hist = Append(@, [op |-> op, res |-> res])]

\* variant: _run() is called in the coroutine itself and has given a file
\* when on_message goes on
start_download_in_loop(f, i) ==
    [f EXCEPT !.idx = i, !.stage = "media", !.tmpdir = "file",
              !.hist = Append(@, [op |-> "download", res |-> "file"]),
              !.webhook = None,
              !.pc = IF f.perms[1].manage_webhooks THEN "webhooks" ELSE "send"]

\* _download_media_file up to its await: mkdtemp, then the executor call
start_download(f, i) ==
    [f EXCEPT !.idx = i, !.stage = "media", !.tmpdir = "dir", !.pc = "download"]

\* _send_via_webhook_or_fallback up to its first await
enter_send(f, stage) ==
    [f EXCEPT !.stage = stage, !.webhook = None,
              !.pc = IF f.perms[1].manage_webhooks THEN "webhooks" ELSE "send"]

\* variant: with nothing reposted on_message returns at once
finish_return_without_commands(f) ==
    [f EXCEPT !.stage = "end",
              !.pc = IF should_delete(f.did_media, f.did_text) THEN "delete" ELSE "done"]

\* on_message after the media and text reposts: delete or go on
finish(f) ==
    [f EXCEPT !.stage = "end",
              !.pc = IF should_delete(f.did_media, f.did_text) THEN "delete" ELSE "process_commands"]

\* variant: the text is reposted whether or not the rewriter changed it
enter_text_always_repost(f) ==
    LET r == _fix_message_content_for_links(f.msg.content)
    IN  enter_send([f EXCEPT !.fixed_content = r.new_content, !.changed = r.changed], "text")

\* on_message from "Fix Twitter/X/Reddit links in the text"
enter_text(f) ==
    LET r == _fix_message_content_for_links(f.msg.content)
        g == [f EXCEPT !.fixed_content = r.new_content, !.changed = r.changed]
    IN  IF r.changed THEN enter_send(g, "text") ELSE finish(g)

\* variant: the loop is left after its first URL
next_url_first_only(f) == enter_text([f EXCEPT !.did_media = f.any_success])

\* variant: after a delivered media repost the text repost is skipped
next_url_skip_text(f) ==
    IF f.idx < Len(f.urls) THEN start_download(f, f.idx + 1)
    ELSE IF f.any_success THEN finish([f EXCEPT !.did_media = TRUE])
    ELSE enter_text([f EXCEPT !.did_media = f.any_success])

\* the loop of _reupload_instaface_media moving to its next URL, or its
\* return to on_message
next_url(f) ==
    IF f.idx < Len(f.urls) THEN start_download(f, f.idx + 1)
    ELSE enter_text([f EXCEPT !.did_media = f.any_success])

\* variant: a failed media send ends the loop over the URLs
after_send_abort_on_failure(f, ok) ==
    IF f.stage = "media"
    THEN IF ok THEN next_url([f EXCEPT !.any_success = TRUE, !.tmpdir = "none"])
         ELSE finish([f EXCEPT !.tmpdir = "none", !.did_media = f.any_success])
    ELSE finish([f EXCEPT !.did_text = ok])

\* what _send_via_webhook_or_fallback returned, back in its caller
after_send(f, ok) ==
    IF f.stage = "media"
    THEN next_url([f EXCEPT !.any_success = @ \/ ok, !.tmpdir = "none"])
    ELSE finish([f EXCEPT !.did_text = ok])

\* the message a send builds
outgoing(f) ==
    IF f.stage = "media"
    THEN [ content |-> AuthorMention \o S_shared \o <<"<">> \o f.urls[f.idx] \o <<">">>,
           file |-> TRUE, users |-> TRUE, roles |-> FALSE, everyone |-> FALSE ]
    ELSE [ content |-> f.fixed_content,
           file |-> FALSE, users |-> TRUE, roles |-> TRUE, everyone |-> TRUE ]

\* variant: the webhook is sent without the thread argument
delivered_to_webhook_channel(f, via) ==
    IF via = "webhook" THEN parent_of(f.msg.channel) ELSE f.msg.channel

\* where a send puts its message: webhook.send posts into the webhook's own
\* channel unless it is given thread=destination, destination.send posts
\* into the destination
delivered_to(f, via) ==
    IF via = "webhook"
    THEN IF ChannelTable[f.msg.channel].kind = "Thread" THEN f.msg.channel
         ELSE parent_of(f.msg.channel)
    ELSE f.msg.channel

\* the record of one send call
send_record(f, via, ok) ==
    [ via |-> via, destination |-> delivered_to(f, via), hook_channel |-> parent_of(f.msg.channel),
      stage |-> f.stage, out |-> outgoing(f), ok |-> ok ]

\* the message event a delivered repost comes back as
echo_of(f, via) ==
    [ channel |-> delivered_to(f, via), author_bot |-> TRUE, webhook_id |-> (via = "webhook"),
      content |-> outgoing(f).content, src |-> "repost" ]

Idle(t) == task[t].pc = "idle"

AllIdle == \A t \in Slots : Idle(t)

FreeSlot == CHOOSE t \in Slots : Idle(t) /\ \A s \in Slots : Idle(s) => t <= s

\* on_message from its first line to its first await
OnMessage(t, msg, perms) ==
    LET reason == early_return(msg, perms)
        f0 == [IdleFrame EXCEPT !.msg = msg, !.perms = perms, !.reason = reason]
        f1 == [f0 EXCEPT !.urls = insta_fb_urls(msg.content)]
    IN  /\ Idle(t)
        /\ task' = [task EXCEPT ![t] =
                IF reason # "none" THEN [f0 EXCEPT !.pc = "process_commands"]
                ELSE IF f1.urls # << >> THEN start_download(f1, 1)
                ELSE enter_text(f1)]

\* a user posts a message; handlers run one at a time
UserMessage ==
    /\ AllIdle
    /\ inbox = << >>
    /\ \E msg \in UserMessages, perms \in PermSnapshots : OnMessage(FreeSlot, msg, perms)
    /\ UNCHANGED <<linkfix_ids, hooks, inbox>>
    /\ UNCHANGED linkVars
    /\ UNCHANGED cogVars

\* the gateway delivers the event of one of the bot's own reposts
RepostEvent ==
    /\ AllIdle
    /\ inbox # << >>
    /\ \E perms \in PermSnapshots : OnMessage(FreeSlot, Head(inbox), perms)
    /\ inbox' = Tail(inbox)
    /\ UNCHANGED <<linkfix_ids, hooks>>
    /\ UNCHANGED linkVars
    /\ UNCHANGED cogVars

\* messages of users that arrive while handlers are running
ConcMessages ==
    { [channel |-> "shitposting", author_bot |-> FALSE, webhook_id |-> FALSE, content |-> T_insta, src |-> "user"],
      [channel |-> "shitposting", author_bot |-> FALSE, webhook_id |-> FALSE, content |-> T_twitter, src |-> "user"],
      [channel |-> "shit_thread", author_bot |-> FALSE, webhook_id |-> FALSE, content |-> T_twitter, src |-> "user"] }

\* the permissions the bot has in these channels
ConcPerms ==
    { Some([manage_messages |-> TRUE, manage_webhooks |-> TRUE]),
      Some([manage_messages |-> TRUE, manage_webhooks |-> FALSE]) }

\* number of user messages waiting at the gateway at start
MaxConcMessages == 2

RECURSIVE MessageSeqs(_)
MessageSeqs(n) ==
    IF n = 0 THEN {<< >>}
    ELSE LET shorter == MessageSeqs(n - 1)
         IN  shorter \cup {Append(q, m) : q \in shorter, m \in ConcMessages}

ConcInboxes == MessageSeqs(MaxConcMessages)

\* the gateway delivers the next message event; its handler starts as a new
\* task whatever the other handlers are waiting for
MessageEvent ==
    /\ inbox # << >>
    /\ \E t \in Slots : Idle(t)
    /\ \E perms \in ConcPerms : OnMessage(FreeSlot, Head(inbox), perms)
    /\ inbox' = Tail(inbox)
    /\ UNCHANGED <<linkfix_ids, hooks>>
    /\ UNCHANGED linkVars
    /\ UNCHANGED cogVars

\* loop.run_in_executor(None, _run) completes: yt-dlp raised (None), gave a
\* filename that is not on disk, or gave the downloaded file
DownloadReturns(t) ==
    /\ task[t].pc = "download"
    /\ \E res \in {"none", "no_file", "file"} :
         LET f == Log(task[t], "download", res)
         IN  task' = [task EXCEPT ![t] =
                 IF res = "none" THEN next_url([f EXCEPT !.tmpdir = "none"])
                 ELSE IF res = "no_file" THEN next_url([f EXCEPT !.tmpdir = "none", !.leaked = @ + 1])
                 ELSE enter_send([f EXCEPT !.tmpdir = "file"], "media")]
    /\ UNCHANGED <<linkfix_ids, hooks, inbox>>
    /\ UNCHANGED linkVars
    /\ UNCHANGED cogVars

\* the first webhook of the listing owned by a bot, if any
first_bot_hook(hs) ==
    LET idx == {i \in 1..Len(hs) : hook_is_bot_owned(hs[i])}
    IN  IF idx = {} THEN None ELSE Some(hs[CHOOSE i \in idx : \A j \in idx : i <= j])

\* variant: a handler that finds another one creating the channel's webhook
\* does not create a second one and sends as the bot
WebhooksReturns_guarded(t) ==
    /\ task[t].pc = "webhooks"
    /\ \E ok \in BOOLEAN :
         LET f == Log(task[t], "webhooks", IF ok THEN "ok" ELSE "fail")
             found == first_bot_hook(hooks[parent_of(f.msg.channel)])
             creating == \E s \in Slots \ {t} :
                             /\ task[s].pc = "create_webhook"
                             /\ parent_of(task[s].msg.channel) = parent_of(f.msg.channel)
         IN  task' = [task EXCEPT ![t] =
                 IF ~ok THEN [f EXCEPT !.pc = "send"]
                 ELSE IF found # None THEN [f EXCEPT !.webhook = found, !.pc = "webhook.send"]
                 ELSE IF creating THEN [f EXCEPT !.pc = "send"]
                 ELSE [f EXCEPT !.pc = "create_webhook"]]
    /\ UNCHANGED <<linkfix_ids, hooks, inbox>>
    /\ UNCHANGED linkVars
    /\ UNCHANGED cogVars

\* _get_or_create_webhook: channel.webhooks() returns or raises
WebhooksReturns(t) ==
    /\ task[t].pc = "webhooks"
    /\ \E ok \in BOOLEAN :
         LET f == Log(task[t], "webhooks", IF ok THEN "ok" ELSE "fail")
             found == first_bot_hook(hooks[parent_of(f.msg.channel)])
         IN  task' = [task EXCEPT ![t] =
                 IF ~ok THEN [f EXCEPT !.pc = "send"]
                 ELSE IF found # None THEN [f EXCEPT !.webhook = found, !.pc = "webhook.send"]
                 ELSE [f EXCEPT !.pc = "create_webhook"]]
    /\ UNCHANGED <<linkfix_ids, hooks, inbox>>
    /\ UNCHANGED linkVars
    /\ UNCHANGED cogVars

\* _get_or_create_webhook: channel.create_webhook() returns or raises
CreateWebhookReturns(t) ==
    /\ task[t].pc = "create_webhook"
    /\ \E ok \in BOOLEAN :
         LET f == Log(task[t], "create_webhook", IF ok THEN "ok" ELSE "fail")
             ch == parent_of(f.msg.channel)
         IN  IF ok
             THEN /\ hooks' = [hooks EXCEPT ![ch] = Append(@, [owner |-> "self"])]
                  /\ task' = [task EXCEPT ![t] =
                         [f EXCEPT !.webhook = Some([owner |-> "self"]), !.pc = "webhook.send"]]
             ELSE /\ task' = [task EXCEPT ![t] = [f EXCEPT !.pc = "send"]]
                  /\ UNCHANGED hooks
    /\ UNCHANGED <<linkfix_ids, inbox>>
    /\ UNCHANGED linkVars
    /\ UNCHANGED cogVars

\* _send_via_webhook_or_fallback: webhook.send() returns or raises
WebhookSendReturns(t) ==
    /\ task[t].pc = "webhook.send"
    /\ \E ok \in BOOLEAN :
         LET f == Log(task[t], "webhook.send", IF ok THEN "ok" ELSE "fail")
             g == [f EXCEPT !.sent = Append(@, send_record(f, "webhook", ok))]
         IN  /\ task' = [task EXCEPT ![t] = after_send(g, ok)]
             /\ inbox' = IF ok THEN Append(inbox, echo_of(f, "webhook")) ELSE inbox
    /\ UNCHANGED <<linkfix_ids, hooks>>
    /\ UNCHANGED linkVars
    /\ UNCHANGED cogVars

\* _send_via_webhook_or_fallback: destination.send() returns or raises
ChannelSendReturns(t) ==
    /\ task[t].pc = "send"
    /\ \E ok \in BOOLEAN :
         LET f == Log(task[t], "send", IF ok THEN "ok" ELSE "fail")
             g == [f EXCEPT !.sent = Append(@, send_record(f, "bot", ok))]
         IN  /\ task' = [task EXCEPT ![t] = after_send(g, ok)]
             /\ inbox' = IF ok THEN Append(inbox, echo_of(f, "bot")) ELSE inbox
    /\ UNCHANGED <<linkfix_ids, hooks>>
    /\ UNCHANGED linkVars
    /\ UNCHANGED cogVars

\* message.delete() returns or raises; the exception is swallowed
DeleteReturns(t) ==
    /\ task[t].pc = "delete"
    /\ \E ok \in BOOLEAN :
         task' = [task EXCEPT ![t] =
             [Log(task[t], "delete", IF ok THEN "ok" ELSE "fail") EXCEPT !.deleted = ok, !.pc = "process_commands"]]
    /\ UNCHANGED <<linkfix_ids, hooks, inbox>>
    /\ UNCHANGED linkVars
    /\ UNCHANGED cogVars

\* _process_cmds: bot.process_commands() returns or raises; on_message returns
ProcessCommandsReturns(t) ==
    /\ task[t].pc = "process_commands"
    /\ \E ok \in BOOLEAN :
         task' = [task EXCEPT ![t] =
             [Log(task[t], "process_commands", IF ok THEN "ok" ELSE "fail") EXCEPT !.pc = "done"]]
    /\ UNCHANGED <<linkfix_ids, hooks, inbox>>
    /\ UNCHANGED linkVars
    /\ UNCHANGED cogVars

\* the finished coroutine's frame is dropped
HandlerReturns(t) ==
    /\ task[t].pc = "done"
    /\ task' = [task EXCEPT ![t] = IdleFrame]
    /\ UNCHANGED <<linkfix_ids, hooks, inbox>>
    /\ UNCHANGED linkVars
    /\ UNCHANGED cogVars

\* ------------------------------------------------------------------------
\* The link functions applied to one input text
\* ------------------------------------------------------------------------

Schemes ==
    { <<"h", "t", "t", "p", ":", "/", "/">>,   \* 'http://'
      <<"h", "t", "t", "p", "s", ":", "/", "/">> }   \* 'https://'

OtherHosts ==
    { <<"T", "w", "i", "t", "t", "e", "r", ".", "c", "o", "m">>,   \* 'Twitter.com'
      <<"W", "W", "W", ".", "T", "W", "I", "T", "T", "E", "R", ".", "C", "O", "M">>,   \* 'WWW.TWITTER.COM'
      <<"X", ".", "c", "o", "m">>,   \* 'X.com'
      <<"R", "e", "d", "d", "i", "t", ".", "c", "o", "m">>,   \* 'Reddit.com'
      <<"R", "e", "d", "d", ".", "I", "t">>,   \* 'Redd.It'
      <<"F", "x", "T", "w", "i", "t", "t", "e", "r", ".", "c", "o", "m">>,   \* 'FxTwitter.com'
      <<"n", "o", "t", "t", "w", "i", "t", "t", "e", "r", ".", "c", "o", "m">>,   \* 'nottwitter.com'
      <<"e", "x", "a", "m", "p", "l", "e", ".", "c", "o", "m">>,   \* 'example.com'
      <<"t", "w", "i", "t", "t", "e", "r", ".", "c", "o", "m", ":", "4", "4", "3">>,   \* 'twitter.com:443'
      <<>> }   \* ''

Tails ==
    { <<>>,   \* ''
      <<"/">>,   \* '/'
      <<"/", "a">>,   \* '/a'
      <<"/", "u", "/", "s", "t", "a", "t", "u", "s", "/", "1", "2", "3", "?", "s", "=", "2", "0">>,   \* '/u/status/123?s=20'
      <<"/", "t", "w", "i", "t", "t", "e", "r", ".", "c", "o", "m">>,   \* '/twitter.com'
      <<"/", "x", ".", "c", "o", "m", "/", "b">>,   \* '/x.com/b'
      <<"/", "i", "/", "r", "e", "d", "d", ".", "i", "t">>,   \* '/i/redd.it'
      <<"/", "t", "o", "/", "F", "X", "T", "W", "I", "T", "T", "E", "R", ".", "C", "O", "M">>,   \* '/to/FXTWITTER.COM'
      <<"?", "q", "=", "f", "i", "x", "v", "x", ".", "c", "o", "m">>,   \* '?q=fixvx.com'
      <<"/", "r", "?", "u", "=", "h", "t", "t", "p", "s", ":", "/", "/", "r", "e", "d", "d", "i", "t", ".", "c", "o", "m", "/", "c">>,   \* '/r?u=https://reddit.com/c'
      <<"/", "p", "/", "C", "x", "1", "/">> }   \* '/p/Cx1/'

\* pieces message texts are composed of
Pieces ==
    \* ' '
    { <<" ">>,
    \* '<'
      <<"<">>,
    \* '>'
      <<">">>,
    \* 'hi'
      <<"h", "i">>,
    \* 'http://'
      <<"h", "t", "t", "p", ":", "/", "/">>,
    \* 'https://twitter.com/u/status/123'
      <<"h", "t", "t", "p", "s", ":", "/", "/", "t", "w", "i", "t", "t", "e", "r", ".", "c", "o", "m", "/", "u", "/", "s", "t", "a", "t", "u", "s", "/", "1", "2", "3">>,
    \* 'https://X.com/b'
      <<"h", "t", "t", "p", "s", ":", "/", "/", "X", ".", "c", "o", "m", "/", "b">>,
    \* 'https://fxtwitter.com/a'
      <<"h", "t", "t", "p", "s", ":", "/", "/", "f", "x", "t", "w", "i", "t", "t", "e", "r", ".", "c", "o", "m", "/", "a">>,
    \* 'https://www.instagram.com/p/Cx1/'
      <<"h", "t", "t", "p", "s", ":", "/", "/", "w", "w", "w", ".", "i", "n", "s", "t", "a", "g", "r", "a", "m", ".", "c", "o", "m", "/", "p", "/", "C", "x", "1", "/">>,
    \* 'https://a.b/?u=https://twitter.com/c'
      <<"h", "t", "t", "p", "s", ":", "/", "/", "a", ".", "b", "/", "?", "u", "=", "h", "t", "t", "p", "s", ":", "/", "/", "t", "w", "i", "t", "t", "e", "r", ".", "c", "o", "m", "/", "c">> }

\* number of pieces a composed message text is built from
MaxParts == 3

Hosts ==
    TWITTER_DOMAINS \cup X_DOMAINS \cup REDDIT_DOMAINS \cup INSTAGRAM_DOMAINS
        \cup FACEBOOK_DOMAINS \cup SKIP_DOMAINS \cup OtherHosts

\* lone URLs: scheme, host, tail (at least one character after the scheme)
SingleUrls ==
    {s \o h \o t : s \in Schemes, h \in Hosts, t \in Tails}
        \ {s \o << >> : s \in Schemes}

RECURSIVE Compose(_)
Compose(n) ==
    IF n = 0 THEN {<< >>}
    ELSE LET shorter == Compose(n - 1)
         IN  shorter \cup {t \o p : t \in shorter, p \in Pieces}

ComposedTexts == Compose(MaxParts)

LinkInputs == SingleUrls \cup ComposedTexts

NoResult == [new_content |-> << >>, changed |-> FALSE]

LinksInit(inputs) ==
    /\ content \in inputs
    /\ urls = << >>
    /\ swapped = << >>
    /\ reswapped = << >>
    /\ fixed = NoResult
    /\ refixed = NoResult
    /\ lstage = "input"

Scan ==
    /\ lstage = "input"
    /\ urls' = scan_urls(content)
    /\ lstage' = "scanned"
    /\ UNCHANGED <<content, swapped, reswapped, fixed, refixed>>
    /\ UNCHANGED pipeVars
    /\ UNCHANGED cogVars

SwapEach ==
    /\ lstage = "scanned"
    /\ swapped' = [i \in 1..Len(urls) |-> _swap_domain(urls[i])]
    /\ lstage' = "swapped"
    /\ UNCHANGED <<content, urls, reswapped, fixed, refixed>>
    /\ UNCHANGED pipeVars
    /\ UNCHANGED cogVars

SwapAgain ==
    /\ lstage = "swapped"
    /\ reswapped' = [i \in 1..Len(swapped) |-> _swap_domain(swapped[i])]
    /\ lstage' = "reswapped"
    /\ UNCHANGED <<content, urls, swapped, fixed, refixed>>
    /\ UNCHANGED pipeVars
    /\ UNCHANGED cogVars

Fix ==
    /\ lstage = "input"
    /\ fixed' = _fix_message_content_for_links(content)
    /\ lstage' = "fixed"
    /\ UNCHANGED <<content, urls, swapped, reswapped, refixed>>
    /\ UNCHANGED pipeVars
    /\ UNCHANGED cogVars

Refix ==
    /\ lstage = "fixed"
    /\ refixed' = _fix_message_content_for_links(fixed.new_content)
    /\ lstage' = "refixed"
    /\ UNCHANGED <<content, urls, swapped, reswapped, fixed>>
    /\ UNCHANGED pipeVars
    /\ UNCHANGED cogVars


\* ------------------------------------------------------------------------
\* AutoClean (cogs/autoclean.py)
\* ------------------------------------------------------------------------

AUTODELETE_SECONDS == 6

\* set(config.AUTO_CLEAN_EXEMPT_CHANNEL_IDS), the ones among the channels here
AutoClean_EXEMPT_CHANNEL_IDS == {"ffxiv_wiki"}

\* config.MODLOG_CHANNEL_ID is None, so nothing is added to the empty set
MOD_WARNING_CHANNEL_IDS == {}

\* WARNING_KEYWORDS, WARNING_EMBED_TITLES, WARNING_EMBED_FOOTER_SNIPPETS
WARNING_TEXTS ==
    { <<"W", "a", "r", "n", "i", "n", "g", " ", "n", "o", "t", "e", "d", ".">>,
      <<"h", "a", "s", " ", "b", "e", "e", "n", " ", "w", "a", "r", "n", "e", "d">>,
      <<"h", "a", "s", " ", "r", "e", "c", "e", "i", "v", "e", "d", " ", "a", " ", "w", "a", "r", "n", "i", "n", "g">>,
      <<"U", "s", "e", "r", " ", "W", "a", "r", "n", "e", "d">>,
      <<"W", "a", "r", "n", "i", "n", "g", " ", "I", "s", "s", "u", "e", "d">>,
      <<"W", "a", "r", "n", "i", "n", "g", " ", "n", "o", "t", "e", "d">>,
      <<"C", "h", "e", "s", "h", "i", "r", "e", " ", "A", "u", "t", "o", "M", "o", "d">> }

S_I_agree == <<"I", " ", "a", "g", "r", "e", "e", ".">>

\* str.strip()
RECURSIVE strip(_)
strip(s) ==
    IF s = << >> THEN s
    ELSE IF Head(s) \in Whitespace THEN strip(Tail(s))
    ELSE IF s[Len(s)] \in Whitespace THEN strip(SubSeq(s, 1, Len(s) - 1))
    ELSE s

\* EXEMPT_CATEGORY_IDS is empty: no category makes a channel exempt
_is_exempt_channel(channel) ==
    IF ChannelTable[channel].kind \notin {"TextChannel", "Thread"} THEN TRUE
    ELSE IF channel \in AutoClean_EXEMPT_CHANNEL_IDS THEN TRUE
    ELSE FALSE

\* message.guild is None
no_guild(message) == ChannelTable[message.channel].kind = "DMChannel"

\* SKIP_IF_PINNED and SKIP_IF_HAS_COMPONENTS are True
_should_ignore_message(message) ==
    IF no_guild(message) THEN TRUE
    ELSE IF _is_exempt_channel(message.channel) THEN TRUE
    ELSE IF message.pinned THEN TRUE
    ELSE IF message.components THEN TRUE
    ELSE FALSE

\* the messages here carry no embeds, _gather_message_text gives the
\* content; _contains_any compares in lower case
_looks_like_warning_message(message) ==
    IF message.channel \notin MOD_WARNING_CHANNEL_IDS THEN FALSE
    ELSE \E n \in WARNING_TEXTS : Contains(Lower(message.content), Lower(n))

\* author.bot: set for the bot's own account and for other bots, not for
\* users
author_bot(author) == author \in {"self", "other_bot"}

\* the message events the cog sees: where, by whom (the bot itself, another
\* bot, a user), pinned or not, with components or not (only bots post
\* components), and the text
CleanMessages ==
    { m \in [channel : {"general", "shit_thread", "ffxiv_wiki", "voice", "dm"},
             author : {"self", "other_bot", "user"},
             pinned : BOOLEAN,
             components : BOOLEAN,
             content : { << >>,
                         S_I_agree,
                         <<" ">> \o S_I_agree \o <<"\n">>,
                         <<"P", "o", "n", "g">>,
                         <<"!", "p", "i", "n", "g">>,
                         <<"W", "a", "r", "n", "i", "n", "g", " ", "n", "o", "t", "e", "d", ".">> }] :
        m.components => author_bot(m.author) }

\* a finished slash command: the channel of the interaction, whether it was
\* responded to, what original_response() gives, and whether a moderator
\* has pinned the response while the command was running.  No command of
\* the bot answers with components.
Interactions ==
    [channel : {"general", "shit_thread", "ffxiv_wiki", "none"},
     is_done : BOOLEAN,
     original : {"message", "NotFound"},
     pinned : BOOLEAN]

CleanIdle ==
    [ pc |-> "idle", handler |-> "none", msg |-> None, start_pinned |-> FALSE, pinned |-> FALSE,
      now |-> 0, due |-> 0, outcome |-> "none", deleted |-> FALSE ]

\* AutoClean.on_message up to its return or its sleep; the prefix of the
\* bot is "!"
AutoCleanOnMessage ==
    /\ clean.pc = "idle"
    /\ \E message \in CleanMessages :
         LET f == [CleanIdle EXCEPT !.handler = "on_message", !.msg = Some(message),
                                    !.start_pinned = message.pinned, !.pinned = message.pinned]
             returned == [f EXCEPT !.pc = "done", !.outcome = "returned"]
         IN  clean' =
                 IF no_guild(message) \/ author_bot(message.author) THEN returned
                 ELSE IF _should_ignore_message(message) THEN returned
                 ELSE IF message.author = "self"
                      THEN IF _looks_like_warning_message(message) THEN returned
                           ELSE IF message.content # << >> /\ strip(message.content) = S_I_agree
                                THEN returned
                           ELSE [f EXCEPT !.pc = "wait", !.outcome = "delete_delay",
                                          !.due = AUTODELETE_SECONDS]
                 ELSE IF HasAt(message.content, <<"!">>, 1)
                      THEN [f EXCEPT !.pc = "wait", !.outcome = "sleep", !.due = AUTODELETE_SECONDS]
                      ELSE returned
    /\ UNCHANGED <<pipeVars, linkVars, automod, gate, picker>>

\* AutoClean.on_app_command_completion up to its return or its sleep
AppCommandCompletion ==
    /\ clean.pc = "idle"
    /\ \E interaction \in Interactions :
         LET original == [channel |-> interaction.channel, author |-> "self",
                          pinned |-> interaction.pinned, components |-> FALSE,
                          content |-> <<"P", "o", "n", "g">>]
             f == [CleanIdle EXCEPT !.handler = "on_app_command_completion",
                                    !.start_pinned = interaction.pinned, !.pinned = interaction.pinned]
             returned == [f EXCEPT !.pc = "done", !.outcome = "returned"]
         IN  clean' =
                 IF interaction.channel = "none" \/ ChannelTable[interaction.channel].kind # "TextChannel"
                 THEN returned
                 ELSE IF _is_exempt_channel(interaction.channel) THEN returned
                 ELSE IF ~interaction.is_done THEN returned
                 ELSE IF interaction.original = "NotFound" THEN returned
                 ELSE [f EXCEPT !.pc = "wait", !.msg = Some(original), !.outcome = "sleep",
                                !.due = AUTODELETE_SECONDS]
    /\ UNCHANGED <<pipeVars, linkVars, automod, gate, picker>>

\* a second of asyncio.sleep(AUTODELETE_SECONDS), or of the delay of delete()
Tick ==
    /\ clean.pc = "wait"
    /\ clean.now < clean.due
    /\ clean' = [clean EXCEPT !.now = @ + 1]
    /\ UNCHANGED <<pipeVars, linkVars, automod, gate, picker>>

\* a moderator pins the message while the handler is waiting
Pin ==
    /\ clean.pc = "wait"
    /\ ~clean.pinned
    /\ clean' = [clean EXCEPT !.pinned = TRUE]
    /\ UNCHANGED <<pipeVars, linkVars, automod, gate, picker>>

\* the wait is over: message.delete() returns or raises, the exception is
\* swallowed
CleanDeleteReturns ==
    /\ clean.pc = "wait"
    /\ clean.now = clean.due
    /\ \E res \in {"ok", "NotFound", "Forbidden"} :
           clean' = [clean EXCEPT !.pc = "done", !.deleted = (res = "ok")]
    /\ UNCHANGED <<pipeVars, linkVars, automod, gate, picker>>

\* the handler is over
CleanReturns ==
    /\ clean.pc = "done"
    /\ clean' = CleanIdle
    /\ UNCHANGED <<pipeVars, linkVars, automod, gate, picker>>

\* ------------------------------------------------------------------------
\* Moderation / AutoMod (cogs/moderation.py, permissions.py)
\* ------------------------------------------------------------------------

MAX_MENTIONS == 6

SPAM_WINDOW_SECONDS == 6

SPAM_MAX_MESSAGES == 6

REPEAT_WINDOW_SECONDS == 10

\* {config.FFXIV_WIKI_CHANNEL_ID}
Moderation_EXEMPT_CHANNEL_IDS == {"ffxiv_wiki"}

\* config.ADMIN_ROLE_NAMES
ADMIN_ROLE_NAMES == {"Doomed Rabbit", "Madness Warden"}

S_discord_gg == <<"d", "i", "s", "c", "o", "r", "d", ".", "g", "g", "/">>

S_discord_com_invite == <<"d", "i", "s", "c", "o", "r", "d", ".", "c", "o", "m", "/", "i", "n", "v", "i", "t", "e", "/">>

\* INVITE_RE.search(s) finds something: one of the two prefixes, in any
\* case, followed by a character of [A-Za-z0-9-]
INVITE_RE_search(s) ==
    LET low == Lower(s)
    IN  \E p \in {S_discord_gg, S_discord_com_invite} :
            \E i \in 1..Len(s) :
                /\ i + Len(p) <= Len(s)
                /\ HasAt(low, p, i)
                /\ LET c == s[i + Len(p)]
                   IN  \/ \E k \in 1..Len(LowerLetters) : LowerLetters[k] = LowerChar(c)
                       \/ c \in {"0", "1", "2", "3", "4", "5", "6", "7", "8", "9", "-"}

\* The authors of the messages AutoMod sees: whether the account is a bot,
\* whether message.author is a Member, the member's guild permissions and
\* the names of the member's roles.
ModAuthors ==
    [ alice    |-> [bot |-> FALSE, member |-> TRUE,  perms |-> {}, roles |-> {"Hatter's Strays"}],
      bob      |-> [bot |-> FALSE, member |-> TRUE,  perms |-> {}, roles |-> {}],
      warden   |-> [bot |-> FALSE, member |-> TRUE,  perms |-> {}, roles |-> {"Madness Warden"}],
      helper   |-> [bot |-> FALSE, member |-> TRUE,  perms |-> {"manage_messages"}, roles |-> {}],
      otherbot |-> [bot |-> TRUE,  member |-> TRUE,  perms |-> {}, roles |-> {}],
      ghost    |-> [bot |-> FALSE, member |-> FALSE, perms |-> {}, roles |-> {}] ]

\* variant: only the permissions count, the staff roles do not
is_mod_member_perms_only(member) ==
    member.perms \cap {"administrator", "manage_guild", "manage_messages", "kick_members", "ban_members"} # {}

\* permissions.is_mod_member, with has_any_role(member, ADMIN_ROLE_NAMES)
is_mod_member(member) ==
    IF member.perms \cap {"administrator", "manage_guild", "manage_messages", "kick_members", "ban_members"} # {}
    THEN TRUE
    ELSE IF \E name \in ADMIN_ROLE_NAMES : name \in member.roles THEN TRUE
    ELSE FALSE

S_hi == <<"h", "i">>

S_invite == S_discord_gg \o <<"x">>

\* INVITE_RE.search(message.content or ""), for each of the texts
invite_found == [c \in {<< >>, S_hi, S_invite} |-> INVITE_RE_search(c)]

\* seconds at which messages are created
TimeStamps == {0, 6, 16}

\* entries a user's history holds at most before the next message
MaxTracked == 6

\* BurstTracker.recent: the entries inside the window; they replace the
\* user's bucket
BurstTracker_recent(history, user_id, ts, window) ==
    LET bucket == history[user_id]
        filtered == SelectSeq(bucket, LAMBDA e : ts - e.t <= window)
    IN  [history |-> [history EXCEPT ![user_id] = filtered], filtered |-> filtered]

\* BurstTracker.add
BurstTracker_add(history, user_id, ts, text) ==
    [history EXCEPT ![user_id] = Append(@, [t |-> ts, c |-> text])]

\* what a run of on_message did
ModResult(path, deleted, sent, report, history) ==
    [path |-> path, deleted |-> deleted, sent |-> sent, report |-> report, history |-> history]

\* Moderation._check_spam_and_repeats (ANTISPAM_ENABLED and REPEAT_ENABLED
\* are True).  recent() returns the list object it has stored as the
\* user's bucket and add() appends to that bucket, so the list named
\* `recent` holds the new entry when spam_recent and repeats are built.
_check_spam_and_repeats(history, message) ==
    IF ~ModAuthors[message.author].member
    THEN ModResult("not_member", FALSE, FALSE, "none", history)
    ELSE LET now_ts == message.ts
             text == message.content
             window == IF SPAM_WINDOW_SECONDS >= REPEAT_WINDOW_SECONDS THEN SPAM_WINDOW_SECONDS
                       ELSE REPEAT_WINDOW_SECONDS
             r == BurstTracker_recent(history, message.author, now_ts, window)
             added == BurstTracker_add(r.history, message.author, now_ts, text)
             recent == added[message.author]
             spam_recent == SelectSeq(recent, LAMBDA e : now_ts - e.t <= SPAM_WINDOW_SECONDS)
             repeats == SelectSeq(recent, LAMBDA e : e.c = text)
         IN  IF Len(spam_recent) >= SPAM_MAX_MESSAGES
             THEN ModResult("tracked", FALSE, FALSE, "Spam burst", added)
             ELSE IF text # << >> /\ Len(repeats) >= 3
             THEN ModResult("tracked", FALSE, FALSE, "Repeated content", added)
             ELSE ModResult("tracked", FALSE, FALSE, "none", added)

\* Moderation.on_message (BLOCK_INVITES and BLOCK_MASS_MENTIONS are True);
\* delete_ok and send_ok are what message.delete() and channel.send() do.
\* _is_immune is is_mod_member.  modlog() is called after both calls and
\* posts nothing (config.MODLOG_CHANNEL_ID is None).
Moderation_on_message(history, message, delete_ok, send_ok) ==
    LET author == ModAuthors[message.author]
        blocked(path, label) ==
            ModResult(path, delete_ok, delete_ok /\ send_ok,
                      IF delete_ok /\ send_ok THEN label ELSE "none", history)
    IN  IF no_guild(message) \/ author.bot
        THEN ModResult("dm_or_bot", FALSE, FALSE, "none", history)
        ELSE IF message.channel \in Moderation_EXEMPT_CHANNEL_IDS
        THEN ModResult("exempt", FALSE, FALSE, "none", history)
        ELSE IF author.member /\ is_mod_member(author)
        THEN ModResult("immune", FALSE, FALSE, "none", history)
        ELSE IF invite_found[message.content]
        THEN blocked("invite", "Blocked invite")
        ELSE IF message.mentions > 0 /\ message.mentions + message.role_mentions >= MAX_MENTIONS
        THEN blocked("mass_mention", "Mass mention")
        ELSE _check_spam_and_repeats(history, message)

\* who posts, where, what: a member, a member with a staff role, a member
\* with a moderation permission, a bot, an author who is no Member
ModPosts ==
    { [author |-> "alice", channel |-> "general", content |-> c, mentions |-> 0, role_mentions |-> 0] :
          c \in {<< >>, S_hi} }
    \cup
    { [author |-> a, channel |-> "general", content |-> S_invite, mentions |-> 0, role_mentions |-> 0] :
          a \in {"alice", "warden", "helper", "otherbot", "ghost"} }
    \cup
    { [author |-> "alice", channel |-> ch, content |-> S_invite, mentions |-> 0, role_mentions |-> 0] :
          ch \in {"ffxiv_wiki", "dm"} }
    \cup
    { [author |-> "alice", channel |-> "general", content |-> S_hi, mentions |-> 1, role_mentions |-> 5],
      [author |-> "ghost", channel |-> "general", content |-> S_hi, mentions |-> 0, role_mentions |-> 0] }

\* nothing handled yet; bob may have posted once, long ago
ModStart(bob_history) ==
    [ history |-> [u \in DOMAIN ModAuthors |-> IF u = "bob" THEN bob_history ELSE << >>],
      msg |-> [author |-> "none", channel |-> "none", content |-> << >>, mentions |-> 0,
               role_mentions |-> 0, ts |-> 0],
      path |-> "none", deleted |-> FALSE, sent |-> FALSE, report |-> "none" ]

\* a message event reaches the Moderation cog; the events come in the
\* order of their timestamps.  message.delete() and channel.send() both
\* return, or the send raises, or the delete raises (and the send is not
\* reached).
ModerationOnMessage ==
    /\ \E post \in ModPosts, ts \in TimeStamps :
         /\ ts >= automod.msg.ts
         /\ Len(automod.history[post.author]) <= MaxTracked
         /\ \E net \in { <<TRUE, TRUE>>, <<TRUE, FALSE>>, <<FALSE, FALSE>> } :
              LET message == [author |-> post.author, channel |-> post.channel, content |-> post.content,
                              mentions |-> post.mentions, role_mentions |-> post.role_mentions, ts |-> ts]
                  r == Moderation_on_message(automod.history, message, net[1], net[2])
              IN  /\ r.path \notin {"invite", "mass_mention"} => net = <<TRUE, TRUE>>
                  /\ r.path # "tracked" => ts = automod.msg.ts
                  /\ automod' = [ history |-> r.history, msg |-> message, path |-> r.path,
                                  deleted |-> r.deleted, sent |-> r.sent, report |-> r.report ]
    /\ UNCHANGED <<pipeVars, linkVars, clean, gate, picker>>

\* ------------------------------------------------------------------------
\* Gatekeep (cogs/gatekeep.py)
\* ------------------------------------------------------------------------

\* GateView handlers that can be running at a time
GateSlots == {1, 2}

\* button presses of a run
MaxPresses == 3

GateIdleFrame ==
    [ pc |-> "idle", make_fc |-> FALSE, to_remove |-> << >>, to_add |-> << >>, failed |-> FALSE,
      reply |-> "none" ]

\* the member's roles among "gate" (config.GATE_ROLE_ID), "fc"
\* (config.FC_ROLE_NAME) and "friend" (config.FRIEND_ROLE_NAME), which the
\* guild has; the presses so far; the handlers
GateStart ==
    [ joined |-> FALSE, roles |-> {}, presses |-> << >>, failed |-> FALSE,
      h |-> [t \in GateSlots |-> GateIdleFrame] ]

\* Gatekeep.on_member_join: add_roles(gate_role) returns or raises
MemberJoin ==
    /\ ~gate.joined
    /\ \E ok \in BOOLEAN :
           gate' = [gate EXCEPT !.joined = TRUE, !.roles = IF ok THEN {"gate"} ELSE {}]
    /\ UNCHANGED <<pipeVars, linkVars, clean, automod, picker>>

\* GateView._apply_choice up to its first await; member_roles is
\* member.roles of the interaction
_apply_choice(in_guild, member_roles, make_fc) ==
    LET rm_gate == IF "gate" \in member_roles THEN <<"gate">> ELSE << >>
        rm_other == IF make_fc
                    THEN IF "friend" \in member_roles THEN <<"friend">> ELSE << >>
                    ELSE IF "fc" \in member_roles THEN <<"fc">> ELSE << >>
        to_add == IF make_fc
                  THEN IF "fc" \notin member_roles THEN <<"fc">> ELSE << >>
                  ELSE IF "friend" \notin member_roles THEN <<"friend">> ELSE << >>
        to_remove == rm_gate \o rm_other
        f == [GateIdleFrame EXCEPT !.make_fc = make_fc, !.to_remove = to_remove, !.to_add = to_add]
    IN  IF ~in_guild THEN [f EXCEPT !.pc = "reply", !.reply = "This can only be used in a server."]
        ELSE IF to_remove # << >> THEN [f EXCEPT !.pc = "remove_roles"]
        ELSE IF to_add # << >> THEN [f EXCEPT !.pc = "add_roles"]
        ELSE [f EXCEPT !.pc = "reply", !.reply = IF make_fc THEN "FC Member" ELSE "Friend of the FC"]

\* the member presses one of the two buttons; the interaction carries the
\* member's roles of that moment and its handler starts at once
GatePress ==
    /\ gate.joined
    /\ Len(gate.presses) < MaxPresses
    /\ \E t \in GateSlots :
         /\ gate.h[t].pc = "idle"
         /\ \A u \in GateSlots : gate.h[u].pc = "idle" => t <= u
         /\ \E make_fc \in BOOLEAN, in_guild \in BOOLEAN :
                gate' = [gate EXCEPT !.h[t] = _apply_choice(in_guild, gate.roles, make_fc),
                                     !.presses = IF in_guild THEN Append(@, make_fc) ELSE @]
    /\ UNCHANGED <<pipeVars, linkVars, clean, automod, picker>>

\* the elements of a sequence
Range(q) == {q[i] : i \in DOMAIN q}

\* member.remove_roles(*to_remove) returns, or raises after the first n
\* roles have been removed (one request per role)
GateRemoveRolesReturns(t) ==
    /\ gate.h[t].pc = "remove_roles"
    /\ LET f == gate.h[t]
       IN  \/ gate' = [gate EXCEPT !.roles = @ \ Range(f.to_remove),
                                   !.h[t] = IF f.to_add # << >> THEN [f EXCEPT !.pc = "add_roles"]
                                            ELSE [f EXCEPT !.pc = "reply",
                                                           !.reply = IF f.make_fc THEN "FC Member"
                                                                     ELSE "Friend of the FC"]]
           \/ \E n \in 0..(Len(f.to_remove) - 1) :
                  gate' = [gate EXCEPT !.roles = @ \ Range(SubSeq(f.to_remove, 1, n)),
                                       !.failed = TRUE,
                                       !.h[t] = [f EXCEPT !.pc = "reply", !.failed = TRUE,
                                                          !.reply = "Something went wrong changing your roles."]]
    /\ UNCHANGED <<pipeVars, linkVars, clean, automod, picker>>

\* member.add_roles(*to_add) returns or raises
GateAddRolesReturns(t) ==
    /\ gate.h[t].pc = "add_roles"
    /\ LET f == gate.h[t]
       IN  \/ gate' = [gate EXCEPT !.roles = @ \cup Range(f.to_add),
                                   !.h[t] = [f EXCEPT !.pc = "reply",
                                                      !.reply = IF f.make_fc THEN "FC Member"
                                                                ELSE "Friend of the FC"]]
           \/ gate' = [gate EXCEPT !.failed = TRUE,
                                   !.h[t] = [f EXCEPT !.pc = "reply", !.failed = TRUE,
                                                      !.reply = "Something went wrong changing your roles."]]
    /\ UNCHANGED <<pipeVars, linkVars, clean, automod, picker>>

\* the ephemeral answer is sent and the handler returns
GateReplyReturns(t) ==
    /\ gate.h[t].pc = "reply"
    /\ gate' = [gate EXCEPT !.h[t] = GateIdleFrame]
    /\ UNCHANGED <<pipeVars, linkVars, clean, automod, picker>>

\* ------------------------------------------------------------------------
\* RolePicker: the pronoun dropdown (cogs/rolepicker.py)
\* ------------------------------------------------------------------------

\* config.GENDER_ROLE_IDS, by label
GENDER_ROLES == {"She/Her", "They/Them", "He/Him"}

PickerStart(member_roles) ==
    [ roles |-> member_roles, pc |-> "idle", view |-> {}, selected |-> "none",
      roles_to_remove |-> {}, reply |-> "none" ]

\* a member picks an entry of the dropdown: GenderSelect.callback up to its
\* first await.  view is member.roles of the interaction.
PickerSelect ==
    /\ picker.pc = "idle"
    /\ \E role \in GENDER_ROLES, is_member \in BOOLEAN, exists \in BOOLEAN :
         LET f == [picker EXCEPT !.view = picker.roles, !.selected = role, !.roles_to_remove = {}]
             roles_to_remove == {r \in f.view : r \in GENDER_ROLES}
         IN  picker' =
                 IF ~is_member
                 THEN [f EXCEPT !.pc = "reply", !.reply = "This can only be used inside the server."]
                 ELSE IF ~exists
                 THEN [f EXCEPT !.pc = "reply", !.reply = "That role doesn't exist anymore."]
                 ELSE IF roles_to_remove # {}
                 THEN [f EXCEPT !.pc = "remove_roles", !.roles_to_remove = roles_to_remove]
                 ELSE IF role \notin f.view THEN [f EXCEPT !.pc = "add_roles"]
                 ELSE [f EXCEPT !.pc = "reply", !.reply = "Pronouns updated."]
    /\ UNCHANGED <<pipeVars, linkVars, clean, automod, gate>>

\* member.remove_roles(*roles_to_remove) returns and `if role not in
\* member.roles` is evaluated, or the call raises Forbidden or something
\* else after some of the roles have been removed.  member.roles is what
\* the interaction carried unless a member update has been applied to the
\* object in the meantime.
PickerRemoveRolesReturns ==
    /\ picker.pc = "remove_roles"
    /\ \/ \E view \in {picker.view, picker.view \ picker.roles_to_remove} :
              LET f == [picker EXCEPT !.roles = @ \ picker.roles_to_remove, !.view = view]
              IN  picker' = IF f.selected \notin view THEN [f EXCEPT !.pc = "add_roles"]
                            ELSE [f EXCEPT !.pc = "reply", !.reply = "Pronouns updated."]
       \/ \E gone \in SUBSET picker.roles_to_remove, reply \in
                {"I don't have permission to change your roles.",
                 "Something went wrong while updating your roles."} :
              /\ gone # picker.roles_to_remove
              /\ picker' = [picker EXCEPT !.roles = @ \ gone, !.pc = "reply", !.reply = reply]
    /\ UNCHANGED <<pipeVars, linkVars, clean, automod, gate>>

\* member.add_roles(role) returns or raises
PickerAddRolesReturns ==
    /\ picker.pc = "add_roles"
    /\ \/ picker' = [picker EXCEPT !.roles = @ \cup {picker.selected}, !.pc = "reply",
                                   !.reply = "Pronouns updated."]
       \/ \E reply \in {"I don't have permission to change your roles.",
                        "Something went wrong while updating your roles."} :
              picker' = [picker EXCEPT !.pc = "reply", !.reply = reply]
    /\ UNCHANGED <<pipeVars, linkVars, clean, automod, gate>>

\* interaction.response.send_message has been awaited; the callback is over
\* and the member may select again
PickerReplyReturns ==
    /\ picker.pc = "reply"
    /\ picker' = [picker EXCEPT !.pc = "idle"]
    /\ UNCHANGED <<pipeVars, linkVars, clean, automod, gate>>

\* the cogs with nothing going on
CogsInit ==
    /\ clean = CleanIdle
    /\ automod = ModStart(<< >>)
    /\ gate = GateStart
    /\ picker = PickerStart({})

\* ------------------------------------------------------------------------
\* Specifications
\* ------------------------------------------------------------------------

\* the pipeline with nothing started
PipeInit ==
    /\ linkfix_ids = CONFIG_LINKFIX_CHANNEL_IDS
    /\ hooks \in [HookChannels -> HookLists(MaxForeignHooks)]
    /\ inbox = << >>
    /\ task = [t \in Slots |-> IdleFrame]

\* The message pipeline: handlers run one after another, each to its end.
Init ==
    /\ PipeInit
    /\ LinksInit({<< >>})
    /\ CogsInit

Next ==
    \/ UserMessage
    \/ RepostEvent
    \/ \E t \in Slots :
           \/ DownloadReturns(t)
           \/ WebhooksReturns(t)
           \/ CreateWebhookReturns(t)
           \/ WebhookSendReturns(t)
           \/ ChannelSendReturns(t)
           \/ DeleteReturns(t)
           \/ ProcessCommandsReturns(t)
           \/ HandlerReturns(t)

Spec == Init /\ [][Next]_vars

\* The scanner and the rewriter on every input text.
InitLinks ==
    /\ PipeInit
    /\ \A c \in HookChannels : hooks[c] = << >>
    /\ LinksInit(LinkInputs)
    /\ CogsInit

NextLinks == Scan \/ SwapEach \/ SwapAgain \/ Fix \/ Refix

SpecLinks == InitLinks /\ [][NextLinks]_vars

\* The message pipeline with handlers that overlap: discord.py runs
\* on_message for each event as a task of its own, and a handler that awaits
\* lets the others run.
InitConc ==
    /\ linkfix_ids = CONFIG_LINKFIX_CHANNEL_IDS
    /\ hooks \in [HookChannels -> HookLists(MaxForeignHooks)]
    /\ inbox \in ConcInboxes
    /\ task = [t \in Slots |-> IdleFrame]
    /\ LinksInit({<< >>})
    /\ CogsInit

NextConc ==
    \/ MessageEvent
    \/ \E t \in Slots :
           \/ DownloadReturns(t)
           \/ WebhooksReturns(t)
           \/ CreateWebhookReturns(t)
           \/ WebhookSendReturns(t)
           \/ ChannelSendReturns(t)
           \/ DeleteReturns(t)
           \/ ProcessCommandsReturns(t)
           \/ HandlerReturns(t)

SpecConc == InitConc /\ [][NextConc]_vars

\* the pipeline and the link functions at rest, the cogs with nothing
\* going on
InitCogs ==
    /\ PipeInit
    /\ \A c \in HookChannels : hooks[c] = << >>
    /\ LinksInit({<< >>})
    /\ CogsInit

\* AutoClean: one handler of the cog at a time.
NextClean ==
    \/ AutoCleanOnMessage
    \/ AppCommandCompletion
    \/ Tick
    \/ Pin
    \/ CleanDeleteReturns
    \/ CleanReturns

SpecClean == InitCogs /\ [][NextClean]_vars

\* AutoMod: message events one after another, in the order of their
\* timestamps.
InitMod ==
    /\ PipeInit
    /\ \A c \in HookChannels : hooks[c] = << >>
    /\ LinksInit({<< >>})
    /\ clean = CleanIdle
    /\ automod \in {ModStart(h) : h \in {<< >>, <<[t |-> 0, c |-> S_hi]>>}}
    /\ gate = GateStart
    /\ picker = PickerStart({})

SpecMod == InitMod /\ [][ModerationOnMessage]_vars

\* The gate buttons: a handler per press, and handlers that overlap.
NextGate ==
    \/ MemberJoin
    \/ GatePress
    \/ \E t \in GateSlots :
           \/ GateRemoveRolesReturns(t)
           \/ GateAddRolesReturns(t)
           \/ GateReplyReturns(t)

SpecGate == InitCogs /\ [][NextGate]_vars

\* The pronoun dropdown, for every set of roles the member starts with:
\* pronoun roles and another role.
InitPicker ==
    /\ PipeInit
    /\ \A c \in HookChannels : hooks[c] = << >>
    /\ LinksInit({<< >>})
    /\ clean = CleanIdle
    /\ automod = ModStart(<< >>)
    /\ gate = GateStart
    /\ picker \in {PickerStart(rs) : rs \in SUBSET (GENDER_ROLES \cup {"fc"})}

NextPicker ==
    \/ PickerSelect
    \/ PickerRemoveRolesReturns
    \/ PickerAddRolesReturns
    \/ PickerReplyReturns

SpecPicker == InitPicker /\ [][NextPicker]_vars

\* ------------------------------------------------------------------------
\* Properties of the message pipeline
\* ------------------------------------------------------------------------

Frames == {task[t] : t \in Slots}

\* the calls a handler has made so far, the one it is awaiting included
Attempted(f) ==
    {f.hist[i].op : i \in DOMAIN f.hist}
        \cup (IF f.pc \in {"idle", "done"} THEN {} ELSE {f.pc})

PipelineOps == {"download", "webhooks", "create_webhook", "webhook.send", "send", "delete"}

\* the handler made no call of the pipeline
Untouched(f) ==
    /\ Attempted(f) \cap PipelineOps = {}
    /\ f.sent = << >>
    /\ ~f.deleted

\* positions of the calls of one kind in a handler's history
Calls(f, op) == {i \in DOMAIN f.hist : f.hist[i].op = op}

\* a repost (media or text) was delivered
SomeRepostOk(f) == \E i \in DOMAIN f.sent : f.sent[i].ok

\* a step of the pipeline failed: a download without a result, a failed send
StepFailed(f) ==
    \/ \E i \in DOMAIN f.hist : f.hist[i].op = "download" /\ f.hist[i].res # "file"
    \/ \E i \in DOMAIN f.sent : ~f.sent[i].ok

\* C1: the original is deleted only after a repost succeeded; with no
\* successful repost delete is never called; a failing delete is swallowed:
\* the handler goes on to command processing and sends nothing more.
C1_DeleteOnlyAfterRepost ==
    \A f \in Frames :
        /\ "delete" \in Attempted(f) => SomeRepostOk(f)
        /\ ~SomeRepostOk(f) => ~f.deleted
        /\ Cardinality(Calls(f, "delete")) <= 1
        /\ \A i \in Calls(f, "delete") :
               /\ \A j \in DOMAIN f.hist : j > i => f.hist[j].op = "process_commands"
               /\ f.pc \in {"process_commands", "done"}

\* a handler whose delete failed after a delivered repost, now finished
C1_Witness ==
    \E f \in Frames :
        /\ f.pc = "done"
        /\ SomeRepostOk(f)
        /\ \E i \in Calls(f, "delete") : f.hist[i].res = "fail"

\* C2 as stated: whenever a step fails, the original is not deleted.
C2_AnyFailureKeepsOriginal ==
    \A f \in Frames : StepFailed(f) => "delete" \notin Attempted(f)

\* C2 amended: after a failed step the original is deleted if and only if
\* some other repost of the message was delivered: with no delivered repost
\* it is left alone, with one it is deleted all the same.
C2_FailureKeepsOriginalUnlessReposted ==
    \A f \in Frames :
        StepFailed(f) =>
            /\ ~SomeRepostOk(f) => "delete" \notin Attempted(f) /\ ~f.deleted
            /\ (f.stage = "end" /\ SomeRepostOk(f)) => "delete" \in Attempted(f)

\* a finished handler with a failed step, a delivered repost and a delete
C2_Witness ==
    \E f \in Frames :
        /\ f.pc = "done"
        /\ StepFailed(f)
        /\ SomeRepostOk(f)
        /\ f.deleted

\* the channel id for a text channel, the parent id for a thread, on the list
OnAllowList(channel) ==
    \/ ChannelTable[channel].kind = "TextChannel" /\ channel \in linkfix_ids
    \/ ChannelTable[channel].kind = "Thread" /\ ChannelTable[channel].parent_id \in linkfix_ids

\* the handler got past the allow-list check
PastAllowList(f) ==
    f.reason \notin {"dm", "not_text_or_thread", "no_effective_id", "not_linkfix"}

\* C3: off the allow-list nothing is done, whatever the content; a thread
\* passes the allow-list check exactly when its parent is listed; the list
\* stays as configured.
C3_OffAllowListUntouched ==
    /\ linkfix_ids = CONFIG_LINKFIX_CHANNEL_IDS
    /\ \A f \in Frames :
           f.pc # "idle" =>
               /\ ~OnAllowList(f.msg.channel) => Untouched(f)
               /\ ChannelTable[f.msg.channel].kind = "Thread" =>
                      (PastAllowList(f) <=> ChannelTable[f.msg.channel].parent_id \in linkfix_ids)

\* a raw Twitter link by a user, with every permission, off the allow-list
C3_Witness ==
    \E f \in Frames :
        /\ f.pc = "done"
        /\ f.msg.channel \in {"general", "gen_thread"}
        /\ f.msg.content = T_twitter
        /\ ~f.msg.author_bot /\ ~f.msg.webhook_id
        /\ f.perms = Some([manage_messages |-> TRUE, manage_webhooks |-> TRUE])

\* C4: without manage_messages nothing is attempted.
C4_NoDeletePermissionUntouched ==
    \A f \in Frames :
        (f.perms # None /\ ~f.perms[1].manage_messages) => Untouched(f)

\* an eligible message in a listed channel, handled without manage_messages
C4_Witness ==
    \E f \in Frames :
        /\ f.pc = "done"
        /\ f.msg.channel = "shitposting"
        /\ f.msg.content = T_insta_twitter
        /\ ~f.msg.author_bot /\ ~f.msg.webhook_id
        /\ f.perms = Some([manage_messages |-> FALSE, manage_webhooks |-> TRUE])

\* C5: a message by a bot or with a webhook id triggers nothing; every
\* repost comes back as such a message; a message produces at most one
\* repost per Instagram/Facebook candidate plus one.
C5_LoopPrevention ==
    /\ \A i \in DOMAIN inbox : inbox[i].author_bot \/ inbox[i].webhook_id
    /\ \A f \in Frames :
           /\ (f.msg.author_bot \/ f.msg.webhook_id) => Untouched(f)
           /\ f.msg.src = "repost" => Untouched(f)
           /\ Len(f.sent) <= Len(insta_fb_urls(f.msg.content)) + 1

\* a repost that carries an Instagram link, back in its listed channel with
\* every permission, handled to the end
C5_Witness ==
    \E f \in Frames :
        /\ f.pc = "done"
        /\ f.msg.src = "repost"
        /\ OnAllowList(f.msg.channel)
        /\ insta_fb_urls(f.msg.content) # << >>
        /\ f.perms = Some([manage_messages |-> TRUE, manage_webhooks |-> TRUE])

\* one Instagram/Facebook candidate and a changed text, everything succeeding
BothSucceed(f) ==
    /\ f.reason = "none"
    /\ Len(insta_fb_urls(f.msg.content)) = 1
    /\ _fix_message_content_for_links(f.msg.content).changed
    /\ ~StepFailed(f)

\* C6: with a Twitter and an Instagram URL and every step succeeding, two
\* messages go out, the media repost with the file and then the text repost,
\* and delete is called once, after both.
C6_TwoRepostsThenOneDelete ==
    \A f \in Frames :
        BothSucceed(f) =>
            /\ "delete" \in Attempted(f) =>
                   /\ Len(f.sent) = 2
                   /\ f.sent[1].stage = "media" /\ f.sent[1].out.file
                   /\ f.sent[2].stage = "text" /\ ~f.sent[2].out.file
                   /\ f.sent[2].out.content = _fix_message_content_for_links(f.msg.content).new_content
            /\ f.pc \in {"process_commands", "done"} =>
                   /\ Cardinality(Calls(f, "delete")) = 1
                   /\ Cardinality(Calls(f, "webhook.send") \cup Calls(f, "send")) = 2
                   /\ \A d \in Calls(f, "delete") :
                          \A c \in Calls(f, "webhook.send") \cup Calls(f, "send") : c < d

\* scenario E handled to the end
C6_Witness ==
    \E f \in Frames :
        /\ BothSucceed(f)
        /\ f.pc = "done"
        /\ f.msg.content = T_insta_twitter
        /\ f.deleted

\* ------------------------------------------------------------------------
\* Properties of the scanner and the rewriter
\* ------------------------------------------------------------------------

\* a skip-list domain occurs somewhere in the lower-cased URL
HasSkipDomain(url) == \E d \in SKIP_DOMAINS : Contains(Lower(url), d)

\* url with the segment between "://" and the first following "/" replaced
\* by new and every other character kept
HostSegmentReplaced(url, new) ==
    LET i == Find(url, S_scheme_sep)
        after == SubSeq(url, i + Len(S_scheme_sep), Len(url))
        j == Find(after, S_slash)
        rest == IF j = 0 THEN << >> ELSE SubSeq(after, j, Len(after))
    IN  SubSeq(url, 1, i + Len(S_scheme_sep) - 1) \o new \o rest

\* C7: a candidate without a skip domain whose lower-cased host is in the
\* Twitter, X or Reddit set comes back with exactly its host segment replaced
\* by fxtwitter.com, fixupx.com or rxddit.com, whatever the case of the host.
C7_HostSegmentRewritten ==
    lstage = "swapped" =>
        \A i \in DOMAIN urls :
            LET host == _extract_host(urls[i])
            IN  (~HasSkipDomain(urls[i]) /\ Truthy(host)) =>
                    /\ host[1] \in TWITTER_DOMAINS => swapped[i] = HostSegmentReplaced(urls[i], FXTWITTER)
                    /\ host[1] \in X_DOMAINS => swapped[i] = HostSegmentReplaced(urls[i], FIXUPX)
                    /\ host[1] \in REDDIT_DOMAINS => swapped[i] = HostSegmentReplaced(urls[i], RXDDIT)

\* C8: rewriting is idempotent on URLs and on texts, and every URL a rewrite
\* produced carries a skip-list domain.
C8_RewriteIdempotent ==
    /\ lstage \in {"swapped", "reswapped"} =>
           \A i \in DOMAIN urls : swapped[i] # urls[i] => HasSkipDomain(swapped[i])
    /\ lstage = "reswapped" => reswapped = swapped
    /\ lstage = "refixed" => refixed.new_content = fixed.new_content /\ ~refixed.changed

\* a text the rewriter changed, rewritten a second time
C8_Witness ==
    /\ lstage = "refixed"
    /\ fixed.changed
    /\ fixed.new_content # content

\* C9: a URL with a skip-list domain anywhere in it comes back unchanged,
\* also when its host is a Twitter, X or Reddit host.
C9_SkipListWins ==
    lstage = "swapped" =>
        \A i \in DOMAIN urls : HasSkipDomain(urls[i]) => swapped[i] = urls[i]

\* a candidate on a Twitter, X or Reddit host with a skip domain in its path
C9_Witness ==
    /\ lstage = "swapped"
    /\ \E i \in DOMAIN urls :
           /\ HasSkipDomain(urls[i])
           /\ _extract_host(urls[i])[1] \in TWITTER_DOMAINS \cup X_DOMAINS \cup REDDIT_DOMAINS
           /\ swapped[i] = urls[i]

\* <p, q>: a "<" at p directly followed by http:// or https://, closed by
\* the first ">" at q, with no whitespace in between
Wrapped(s, p, q) ==
    /\ s[p] = "<"
    /\ HasAt(s, S_http \o S_scheme_sep, p + 1) \/ HasAt(s, S_https \o S_scheme_sep, p + 1)
    /\ p < q /\ s[q] = ">"
    /\ \A k \in (p + 1)..(q - 1) : UrlChar(s[k])

\* C10: no candidate of the scanner lies inside a URL wrapped in <...>.
C10_WrappedUrlNoCandidate ==
    lstage = "scanned" =>
        \A p, q \in DOMAIN content :
            Wrapped(content, p, q) =>
                ~\E i \in DOMAIN urls :
                    \E st \in (p + 1)..(q - 1) :
                        /\ URL_REGEX(content, st) # 0
                        /\ urls[i] = SubSeq(content, st, URL_REGEX(content, st))

\* a scheme at p, not directly after "<", followed by at least one character
\* that is neither whitespace nor ">"
Eligible(s, p) ==
    /\ p = 1 \/ s[p - 1] # "<"
    /\ \E sch \in Schemes :
           /\ HasAt(s, sch, p)
           /\ p + Len(sch) <= Len(s)
           /\ UrlChar(s[p + Len(sch)])

EligibleStarts(s) == {p \in DOMAIN s : s[p] = "h" /\ Eligible(s, p)}

\* no whitespace and no ">" from q to p
SameRun(s, q, p) == \A k \in q..p : UrlChar(s[k])

\* the eligible positions that no earlier occurrence runs over
OccurrenceStarts(s) ==
    LET el == EligibleStarts(s)
    IN  {p \in el : ~\E q \in el : q < p /\ SameRun(s, q, p)}

\* the last position before the next whitespace or ">" after p
OccurrenceEnd(s, p) ==
    LET stops == {k \in p..Len(s) : ~UrlChar(s[k])}
    IN  IF stops = {} THEN Len(s)
        ELSE (CHOOSE k \in stops : \A j \in stops : k <= j) - 1

\* the i-th smallest element of a set of positions
Nth(S, i) == CHOOSE p \in S : Cardinality({q \in S : q < p}) = i - 1

\* the occurrences from left to right, as [start, end]
Occurrences(s) ==
    LET st == OccurrenceStarts(s)
    IN  [i \in 1..Cardinality(st) |-> [start |-> Nth(st, i), end |-> OccurrenceEnd(s, Nth(st, i))]]

\* s with the i-th span replaced by rs[i] and the text between spans kept
RECURSIVE Splice(_, _, _, _, _)
Splice(s, spans, rs, i, pos) ==
    IF i > Len(spans) THEN SubSeq(s, pos, Len(s))
    ELSE SubSeq(s, pos, spans[i].start - 1) \o rs[i] \o Splice(s, spans, rs, i + 1, spans[i].end + 1)

\* C11: the scanner yields one candidate per occurrence, left to right: each
\* starts at http:// or https:// not directly after "<", runs up to the next
\* whitespace or ">", no two overlap, the scan leaves the text and everything
\* else alone, and the text path substitutes exactly these spans.
C11_ScanOrderedOccurrences ==
    LET occ == Occurrences(content)
    IN  /\ lstage = "scanned" =>
               /\ Len(urls) = Len(occ)
               /\ \A i \in DOMAIN urls : urls[i] = SubSeq(content, occ[i].start, occ[i].end)
               /\ \A i \in DOMAIN occ :
                      /\ Eligible(content, occ[i].start)
                      /\ occ[i].end = Len(content) \/ ~UrlChar(content[occ[i].end + 1])
                      /\ \A k \in occ[i].start..occ[i].end : UrlChar(content[k])
                      /\ i > 1 => occ[i - 1].end < occ[i].start
               /\ fixed = NoResult /\ swapped = << >> /\ task = [t \in Slots |-> IdleFrame]
        /\ lstage = "fixed" =>
               fixed.new_content =
                   Splice(content, occ, [i \in DOMAIN occ |-> repl(SubSeq(content, occ[i].start, occ[i].end))], 1, 1)

\* a text with two different candidates and text before the second
C11_Witness ==
    /\ lstage = "scanned"
    /\ Len(urls) >= 2
    /\ urls[1] # urls[2]
    /\ Len(content) > Len(urls[1]) + Len(urls[2])

\* a candidate the rewriter is to change: no skip domain in it and a Twitter,
\* X or Reddit host
Rewritable(url) ==
    /\ ~HasSkipDomain(url)
    /\ Truthy(_extract_host(url))
    /\ _extract_host(url)[1] \in TWITTER_DOMAINS \cup X_DOMAINS \cup REDDIT_DOMAINS

\* what a candidate is replaced by
Rewritten(url) == IF Rewritable(url) THEN _swap_domain(url) ELSE url

\* C12: the fixed text is the input with each candidate span replaced by its
\* rewritten form and everything else kept; a candidate that is not a
\* Twitter, X or Reddit link is kept as it is; changed is true exactly when
\* some span differs from its original.
C12_FixSplicesRewrittenSpans ==
    lstage = "fixed" =>
        LET occ == Occurrences(content)
            cand == [i \in DOMAIN occ |-> SubSeq(content, occ[i].start, occ[i].end)]
        IN  /\ fixed.new_content = Splice(content, occ, [i \in DOMAIN occ |-> Rewritten(cand[i])], 1, 1)
            /\ fixed.changed <=> \E i \in DOMAIN occ : Rewritten(cand[i]) # cand[i]
            /\ (\A i \in DOMAIN occ : ~Rewritable(cand[i])) => fixed.new_content = content /\ ~fixed.changed

\* a text with a rewritten candidate, an Instagram candidate kept as it is
\* and text around them
C12_Witness ==
    /\ lstage = "fixed"
    /\ fixed.changed
    /\ \E i, j \in DOMAIN Occurrences(content) :
           LET occ == Occurrences(content)
               u == SubSeq(content, occ[i].start, occ[i].end)
               v == SubSeq(content, occ[j].start, occ[j].end)
           IN  /\ Rewritten(u) # u
               /\ _is_instagram(v)
               /\ Contains(fixed.new_content, v)
               /\ Contains(fixed.new_content, Rewritten(u))

\* ------------------------------------------------------------------------
\* Further properties of the message pipeline
\* ------------------------------------------------------------------------

\* no Instagram/Facebook candidate and no candidate the rewriter changes
NoEligibleUrl(text) ==
    /\ insta_fb_urls(text) = << >>
    /\ ~_fix_message_content_for_links(text).changed

\* C13: a message without an eligible URL causes no webhook listing or
\* creation, no send, no download and no delete, also when it passed every
\* check of the handler: changed is false and the text path does nothing.
C13_NoEligibleUrlUntouched ==
    \A f \in Frames :
        (f.pc # "idle" /\ NoEligibleUrl(f.msg.content)) =>
            /\ Untouched(f)
            /\ ~f.changed
            /\ ~f.did_media /\ ~f.did_text

\* an already fixed link by a user in a listed channel, with every
\* permission, handled to the end
C13_Witness ==
    \E f \in Frames :
        /\ f.pc = "done"
        /\ f.reason = "none"
        /\ f.msg.content = T_fixed
        /\ f.perms = Some([manage_messages |-> TRUE, manage_webhooks |-> TRUE])

\* C14: a send that is reported as failed was a plain bot-authored send, and
\* a failed webhook delivery is followed by a plain send of the same message;
\* without a webhook (no manage_webhooks, listing or creation failed) the
\* plain send is what is attempted.
C14_FallbackAfterWebhookFailure ==
    \A f \in Frames :
        /\ \A i \in DOMAIN f.sent : ~f.sent[i].ok => f.sent[i].via = "bot"
        /\ \A i \in DOMAIN f.hist :
               (f.hist[i].op = "webhook.send" /\ f.hist[i].res = "fail") =>
                   IF i < Len(f.hist) THEN f.hist[i + 1].op = "send" ELSE f.pc = "send"
        /\ \A i \in DOMAIN f.hist :
               (f.hist[i].op \in {"webhooks", "create_webhook"} /\ f.hist[i].res = "fail") =>
                   IF i < Len(f.hist) THEN f.hist[i + 1].op = "send" ELSE f.pc = "send"

\* C15: the webhook a handler sends through is owned by this bot; a webhook
\* made by another bot or by a human is never reused, a new one is created
\* instead.
C15_WebhookOwnedBySelf ==
    \A f \in Frames :
        /\ f.webhook # None => f.webhook[1].owner = "self"
        /\ f.pc = "webhook.send" => f.webhook = Some([owner |-> "self"])

\* C16: no repost, media or text, through the webhook or as a plain send,
\* has role mentions or everyone mentions enabled.
C16_RepostMentionsUsersOnly ==
    \A f \in Frames :
        \A i \in DOMAIN f.sent :
            ~f.sent[i].out.roles /\ ~f.sent[i].out.everyone

\* C17: when a message's pipeline has finished, every temporary directory
\* its downloads created has been removed, whatever the download returned
\* and whether or not the upload succeeded.
C17_NoTempDirOutlivesPipeline ==
    \A f \in Frames :
        f.pc \in {"delete", "process_commands", "done"} =>
            /\ f.tmpdir = "none"
            /\ f.leaked = 0

\* positions of the send calls in a handler's history; the n-th of them
\* made the n-th record of sent
Sends(f) == Calls(f, "webhook.send") \cup Calls(f, "send")

\* number of downloads that have returned before position p of the history
DownloadsBefore(f, p) == Cardinality({i \in Calls(f, "download") : i < p})

\* what the media repost of a URL says
MediaContent(url) == AuthorMention \o S_shared \o <<"<">> \o url \o <<">">>

\* C19: the steps of one message come in a fixed order.  A media repost is
\* sent after the download of its URL has returned a file, the URLs are
\* taken in candidate order, every media repost comes before the text
\* repost, the text repost and the delete come after every download, and
\* after the delete nothing of the pipeline is called.
C19_FixedStepOrder ==
    \A f \in Frames :
        LET cand == insta_fb_urls(f.msg.content)
        IN  /\ Len(f.sent) = Cardinality(Sends(f))
            /\ Cardinality(Calls(f, "download")) <= Len(cand)
            /\ f.pc = "download" => Cardinality(Calls(f, "download")) < Len(cand)
            /\ \A n \in DOMAIN f.sent :
                   LET p == Nth(Sends(f), n)
                       k == DownloadsBefore(f, p)
                   IN  IF f.sent[n].stage = "media"
                       THEN /\ k >= 1
                            /\ f.sent[n].out.content = MediaContent(cand[k])
                            /\ \E d \in Calls(f, "download") :
                                   /\ d < p
                                   /\ f.hist[d].res = "file"
                                   /\ \A j \in (d + 1)..(p - 1) : f.hist[j].op \in {"webhooks", "create_webhook"}
                            /\ \A m \in DOMAIN f.sent :
                                   (m < n /\ f.sent[m].stage = "media") =>
                                       DownloadsBefore(f, Nth(Sends(f), m)) < k
                       ELSE /\ k = Len(cand)
                            /\ \A m \in DOMAIN f.sent : m > n => FALSE
                            /\ \A m \in DOMAIN f.sent : m < n => f.sent[m].stage = "media"
            /\ (f.pc \in {"webhooks", "create_webhook", "webhook.send", "send"} /\ f.stage = "text") =>
                   Cardinality(Calls(f, "download")) = Len(cand)
            /\ "delete" \in Attempted(f) =>
                   /\ Cardinality(Calls(f, "download")) = Len(cand)
                   /\ f.pc \in {"delete", "process_commands", "done"}
                   /\ \A d \in Calls(f, "delete") :
                          \A j \in DOMAIN f.hist :
                              IF j < d THEN f.hist[j].op \in PipelineOps \ {"delete"}
                              ELSE j = d \/ f.hist[j].op = "process_commands"

\* two media URLs, both downloaded and reposted in order, then the delete
C19_Witness ==
    \E f \in Frames :
        /\ f.pc = "done"
        /\ f.msg.content = T_insta_facebook
        /\ Len(f.sent) = 2
        /\ f.sent[1].ok /\ f.sent[2].ok
        /\ f.deleted

\* ------------------------------------------------------------------------
\* Properties of overlapping handlers
\* ------------------------------------------------------------------------

\* the handler created a webhook, reposted through a webhook and deleted
\* its original
CreatedRepostedDeleted(f) ==
    /\ f.pc = "done"
    /\ \E i \in Calls(f, "create_webhook") : f.hist[i].res = "ok"
    /\ \E i \in DOMAIN f.sent : f.sent[i].ok /\ f.sent[i].via = "webhook"
    /\ f.deleted

\* C18: webhook creation is not guarded.  A handler whose listing shows no
\* webhook of a bot calls create_webhook whatever the other handlers are
\* doing, and a successful create_webhook adds a webhook to the channel also
\* when another handler has added one since the listing.
C18_WebhookCreationUnguarded ==
    [][ \A t \in Slots :
          LET ch == parent_of(task[t].msg.channel)
          IN  /\ ( /\ task[t].pc = "webhooks"
                   /\ task'[t].pc # "webhooks"
                   /\ task'[t].hist[Len(task'[t].hist)].res = "ok"
                   /\ first_bot_hook(hooks[ch]) = None )
                  => task'[t].pc = "create_webhook"
              /\ ( /\ task[t].pc = "create_webhook"
                   /\ task'[t].pc = "webhook.send" )
                  => /\ Len(hooks'[ch]) = Len(hooks[ch]) + 1
                     /\ task'[t].webhook = Some([owner |-> "self"]) ]_vars

\* two handlers in a channel without webhooks have both created one, both
\* have reposted through a webhook and deleted their original, and the
\* channel holds two webhooks
C18_Witness ==
    /\ hooks["shitposting"] = << [owner |-> "self"], [owner |-> "self"] >>
    /\ \A t \in Slots :
           /\ CreatedRepostedDeleted(task[t])
           /\ parent_of(task[t].msg.channel) = "shitposting"
           /\ task[t].msg.src = "user"

\* the handler has got the result of one more download
DownloadResultArrives(t) ==
    /\ Len(task'[t].hist) = Len(task[t].hist) + 1
    /\ task'[t].hist[Len(task'[t].hist)].op = "download"

\* C20: a download in progress blocks nothing.  A handler that starts a
\* download is suspended until the result arrives in a step of its own, so
\* message events and the steps of other handlers can come in between; such
\* a step leaves the suspended handler as it is, its download still pending.
C20_DownloadDoesNotBlockOthers ==
    [][ \A a \in Slots :
          /\ DownloadResultArrives(a) => task[a].pc = "download"
          /\ (task[a].pc = "download" /\ ~DownloadResultArrives(a)) => task'[a] = task[a]
          /\ (task[a].pc # "download" /\ task'[a].pc = "download") =>
                 /\ task'[a].tmpdir = "dir"
                 /\ task'[a].hist = task[a].hist ]_vars

\* the first message's handler is still in its first download; the handler
\* of the message that came after it has reposted, deleted its original and
\* finished
C20_Witness ==
    /\ task[1].pc = "download"
    /\ task[1].hist = << >>
    /\ task[2].pc = "done"
    /\ task[2].msg.src = "user"
    /\ SomeRepostOk(task[2])
    /\ task[2].deleted
    /\ \E i \in Calls(task[2], "process_commands") : i = Len(task[2].hist)

\* ------------------------------------------------------------------------
\* Failure handling, destinations, webhook reuse, command processing
\* ------------------------------------------------------------------------

\* the handler has left the media loop and the text repost behind
PipelineOver(f) == f.reason = "none" /\ f.stage = "end"

\* C21: a failed step aborts nothing and nothing is retried.  When the
\* pipeline of a message is over, the downloader has been called exactly
\* once per Instagram/Facebook candidate, whatever earlier downloads and
\* media sends returned; each download with a file was followed by exactly
\* one media repost attempt; and the text repost was attempted exactly once
\* if the rewriter changed the text.
C21_FailureAbortsNothing ==
    \A f \in Frames :
        LET cand == insta_fb_urls(f.msg.content)
            files == {i \in Calls(f, "download") : f.hist[i].res = "file"}
            media == {n \in DOMAIN f.sent : f.sent[n].stage = "media"}
            text == {n \in DOMAIN f.sent : f.sent[n].stage = "text"}
        IN  /\ Cardinality(Calls(f, "download")) <= Len(cand)
            /\ Cardinality(media) <= Cardinality(files)
            /\ Cardinality(text) <= 1
            /\ PipelineOver(f) =>
                   /\ Cardinality(Calls(f, "download")) = Len(cand)
                   /\ Cardinality(media) = Cardinality(files)
                   /\ Cardinality(text) = IF _fix_message_content_for_links(f.msg.content).changed THEN 1 ELSE 0

\* the first of two media URLs failed (no download, or its send failed),
\* the second was reposted all the same
C21_Witness ==
    \E f \in Frames :
        /\ f.pc = "done"
        /\ f.msg.content = T_insta_facebook
        /\ Cardinality(Calls(f, "download")) = 2
        /\ \/ f.hist[1].res # "file"
           \/ Len(f.sent) = 2 /\ ~f.sent[1].ok
        /\ Len(f.sent) >= 1
        /\ f.sent[Len(f.sent)].ok
        /\ f.sent[Len(f.sent)].out.content = MediaContent(insta_fb_urls(T_insta_facebook)[2])

\* C22: every repost of a message is delivered into the channel or thread
\* the message was posted in, by webhook or by the bot's own send, and the
\* message event it causes arrives there; the webhooks are listed and
\* created on the parent text channel of a thread and on the channel itself
\* for a plain text channel.
C22_RepostStaysInPlace ==
    /\ \A f \in Frames : \A n \in DOMAIN f.sent :
           LET ch == f.msg.channel
           IN  /\ f.sent[n].destination = ch
               /\ f.sent[n].hook_channel =
                      IF ChannelTable[ch].kind = "Thread" THEN ChannelTable[ch].parent_id ELSE ch
               /\ ChannelTable[f.sent[n].hook_channel].kind = "TextChannel"
    /\ \A f \in Frames : f.pc # "idle" /\ f.msg.src = "user" =>
           \A i \in DOMAIN inbox : inbox[i].channel = f.msg.channel
    /\ \A ch \in DOMAIN hooks : ChannelTable[ch].kind = "TextChannel"

\* a message in a thread was reposted through a webhook created on the
\* thread's parent channel
C22_Witness ==
    \E f \in Frames :
        /\ f.msg.channel = "shit_thread"
        /\ \E i \in Calls(f, "create_webhook") : f.hist[i].res = "ok"
        /\ \E n \in DOMAIN f.sent :
               /\ f.sent[n].via = "webhook" /\ f.sent[n].ok
               /\ f.sent[n].destination = "shit_thread"
               /\ f.sent[n].hook_channel = "shitposting"
        /\ \E k \in DOMAIN hooks["shitposting"] : hooks["shitposting"][k].owner = "self"

\* the webhooks of a channel the bot has created itself
SelfHooks(ch) == {k \in DOMAIN hooks[ch] : hooks[ch][k].owner = "self"}

\* C26: with handlers running one at a time a channel never holds more
\* than one webhook created by the bot, whatever the number of messages and
\* reposts; within one message create_webhook succeeds at most once, and a
\* listing that returns once the bot's webhook exists is followed by a send
\* through a listed webhook, not by another creation.
C26_OneWebhookPerChannel ==
    /\ \A ch \in DOMAIN hooks : Cardinality(SelfHooks(ch)) <= 1
    /\ \A f \in Frames :
           /\ Cardinality({i \in Calls(f, "create_webhook") : f.hist[i].res = "ok"}) <= 1
           /\ \A i \in Calls(f, "create_webhook") : f.hist[i].res = "ok" =>
                  \A j \in Calls(f, "webhooks") :
                      j > i /\ f.hist[j].res = "ok" =>
                          /\ j < Len(f.hist) => f.hist[j + 1].op = "webhook.send"
                          /\ j = Len(f.hist) => f.pc = "webhook.send" /\ f.webhook # None

\* the first repost of a message created the webhook, the second one of the
\* same message listed the webhooks and sent through it
C26_Witness ==
    \E f \in Frames :
        /\ f.pc = "done" /\ f.reason = "none"
        /\ Cardinality(SelfHooks(parent_of(f.msg.channel))) = 1
        /\ Cardinality(Calls(f, "create_webhook")) = 1
        /\ Cardinality(Calls(f, "webhooks")) = 2
        /\ Len(f.sent) = 2
        /\ \A n \in DOMAIN f.sent : f.sent[n].via = "webhook" /\ f.sent[n].ok

\* C30: every invocation of on_message calls process_commands exactly once,
\* as its last step: when the handler is over its history ends with that
\* call and holds no other one, and before it is over the call has not been
\* made unless it is the step in progress.  On the full path it comes after
\* the repost and delete attempts, whether they failed or not.
C30_ProcessCommandsOnce ==
    \A f \in Frames :
        LET pcs == Calls(f, "process_commands")
        IN  /\ Cardinality(pcs) <= 1
            /\ f.pc = "done" => pcs = {Len(f.hist)}
            /\ f.pc \notin {"done", "idle"} => pcs = {}

\* command processing after a failed repost, and after a failed delete
C30_Witness ==
    \E f \in Frames :
        /\ f.pc = "done"
        /\ Calls(f, "process_commands") = {Len(f.hist)}
        /\ \E i \in Calls(f, "delete") : f.hist[i].res = "fail"
        /\ \E n \in DOMAIN f.sent : ~f.sent[n].ok

\* ------------------------------------------------------------------------
\* Properties of the cogs
\* ------------------------------------------------------------------------

\* the author is staff: a member with a moderation permission or with one
\* of the staff roles
StaffAuthor(a) ==
    /\ ModAuthors[a].member
    /\ \/ \E q \in {"administrator", "manage_guild", "manage_messages", "kick_members", "ban_members"} :
              q \in ModAuthors[a].perms
       \/ \E n \in ADMIN_ROLE_NAMES : n \in ModAuthors[a].roles

\* the message is in a whitelisted channel or comes from a protected author
ProtectedPost(m) ==
    \/ m.channel \in Moderation_EXEMPT_CHANNEL_IDS
    \/ ModAuthors[m.author].bot
    \/ StaffAuthor(m.author)

\* C24: AutoMod never acts in whitelisted channels or on protected authors.
\* A run of Moderation.on_message for a message in a channel of
\* EXEMPT_CHANNEL_IDS, from a bot or from a staff member deletes nothing,
\* sends nothing, reports nothing and leaves every history of the burst
\* tracker as it was.
C24_AutoModSparesProtected ==
    [][ ProtectedPost(automod'.msg) =>
            /\ automod'.history = automod.history
            /\ ~automod'.deleted
            /\ ~automod'.sent
            /\ automod'.report = "none" ]_vars

\* a staff member has posted an invite while the tracker holds entries of
\* another user, and nothing has happened
C24_Witness ==
    /\ automod.msg.author = "warden"
    /\ automod.msg.content = S_invite
    /\ automod.path = "immune"
    /\ Len(automod.history["alice"]) >= 2
    /\ ~automod.deleted

\* the entries of a history that lie within window seconds before ts
Within(h, ts, window) == SelectSeq(h, LAMBDA e : ts - e.t <= window)

\* C29: burst tracking.  When _check_spam_and_repeats handles a message,
\* the user's history afterwards is the earlier entries with ts - t <= 10
\* plus the new entry and the other users' histories are unchanged; "Spam
\* burst" is reported exactly when at least SPAM_MAX_MESSAGES earlier
\* messages of the user lie within SPAM_WINDOW_SECONDS, the current one not
\* counted; otherwise "Repeated content" is reported exactly when the
\* non-empty content equals at least 3 earlier messages within 10 seconds;
\* the message is not deleted.
C29_BurstTracking ==
    [][ automod'.path = "tracked" =>
            LET m == automod'.msg
                earlier == automod.history[m.author]
                kept == Within(earlier, m.ts, REPEAT_WINDOW_SECONDS)
                spam == Len(Within(earlier, m.ts, SPAM_WINDOW_SECONDS)) >= SPAM_MAX_MESSAGES
                repeated == /\ m.content # << >>
                            /\ Len(SelectSeq(kept, LAMBDA e : e.c = m.content)) >= 3
            IN  /\ automod'.history[m.author] = Append(kept, [t |-> m.ts, c |-> m.content])
                /\ \A u \in DOMAIN ModAuthors \ {m.author} : automod'.history[u] = automod.history[u]
                /\ automod'.report = IF spam THEN "Spam burst"
                                     ELSE IF repeated THEN "Repeated content"
                                     ELSE "none"
                /\ ~automod'.deleted ]_vars

\* the message the AutoClean handler has dealt with
CleanMsg == clean.msg[1]

\* C23: AutoClean.on_message deletes the bot's clutter.  Once on_message
\* has looked at a message written by the bot itself in a guild channel
\* that is not exempt, the message not pinned and without components, not
\* a warning in the mod-log channel and not the text "I agree.", the
\* message is set to be deleted AUTODELETE_SECONDS later.
C23_OwnMessagesScheduled ==
    ( /\ clean.handler = "on_message"
      /\ CleanMsg.author = "self"
      /\ ChannelTable[CleanMsg.channel].kind \in {"TextChannel", "Thread"}
      /\ CleanMsg.channel \notin AutoClean_EXEMPT_CHANNEL_IDS
      /\ ~clean.start_pinned
      /\ ~CleanMsg.components
      /\ CleanMsg.channel \notin MOD_WARNING_CHANNEL_IDS
      /\ strip(CleanMsg.content) # S_I_agree )
    => /\ clean.outcome = "delete_delay"
       /\ clean.due = AUTODELETE_SECONDS

\* C25: AutoClean never deletes a message that carries components, a
\* pinned message, or a message in an exempt channel, whichever of its
\* handlers does the deleting.
C25_NeverDeletesKeptMessages ==
    clean.deleted =>
        /\ ~CleanMsg.components
        /\ ~clean.pinned
        /\ ~_is_exempt_channel(CleanMsg.channel)

\* no GateView handler is running
GateQuiet == \A t \in GateSlots : gate.h[t].pc = "idle"

\* the role of a button
ChoiceRole(make_fc) == IF make_fc THEN "fc" ELSE "friend"

\* C27: the gate choice keeps the FC and Friend roles mutually exclusive.
\* The member never holds both roles; and when the handlers of a sequence
\* of presses whose role calls all succeeded are over, the member holds
\* the role of the last button pressed and nothing else: not the other
\* role and not the gate role.  A handler whose role call failed tells the
\* member so.
C27_GateRolesExclusive ==
    /\ ~({"fc", "friend"} \subseteq gate.roles)
    /\ (GateQuiet /\ ~gate.failed /\ gate.presses # << >>) =>
           gate.roles = {ChoiceRole(gate.presses[Len(gate.presses)])}
    /\ \A t \in GateSlots :
           gate.h[t].failed => gate.h[t].reply = "Something went wrong changing your roles."

\* C28: after a pronoun selection that reports "Pronouns updated." the
\* member holds the selected pronoun role and no other role of
\* GENDER_ROLES, whatever roles the member started with.
C28_SelectedPronounHeld ==
    (picker.pc = "reply" /\ picker.reply = "Pronouns updated.") =>
        picker.roles \cap GENDER_ROLES = {picker.selected}

====
